---- MODULE Spec2Model ----
(***************************************************************************)
(* Activation coordinator of the multi-bot Telegram service.               *)
(*                                                                         *)
(* One Telegraf instance per bot identity; every instance owns the maps    *)
(* created by setupActivationCommand and shares the durable table          *)
(* `activations`.  A handler is an async function: it runs from one await  *)
(* to the next without interruption, and other handlers run in between.    *)
(* A step of a handler is the synchronous code that follows the await it   *)
(* was suspended at, together with the effect of the external call it      *)
(* makes next (store query or update, transport call); the result of that  *)
(* call is kept in the handler's locals and examined by its next step.     *)
(***************************************************************************)
EXTENDS Integers, Sequences, FiniteSets

\* Absent values, one per type (a table column or a local that is null or undefined)
NullStr == <<"null">>     \* no string: a token that is no character
NullNum == 0 - 1          \* no number, no timestamp
NoRow == 0                \* no row: ids of rows are positive
NoReply == "none"         \* the handler has sent nothing

\* ---------------------------------------------------------------- bounds
MaxEvents == 3      \* inbound events delivered in one behaviour
MaxTasks == 2       \* handlers in flight at the same time
MaxTicks == 2       \* advances of the clock in one behaviour
MaxFailures == 1    \* failing external calls in one behaviour
MaxPairEvents == 2  \* inbound events of a behaviour with one selection and one submission
MaxOutage == 2      \* failing external calls of a behaviour with an outage of the transport
MaxTimedEvents == 4 \* inbound events of a behaviour in which the clock advances
MaxRateEvents == 7  \* /activation commands of a behaviour that exercises the rate limiter

\* ------------------------------------------------------ program constants
MAX_ATTEMPTS == 5
WINDOW_MS == 60000
COOLDOWN_MS == 300000
MESSAGE_TTL_MS == 60000
PENDING_TTL_MS == 300000
HOUR_MS == 3600000
SECOND_MS == 1000

\* ------------------------------------------------------------- strings
\* A string is a sequence of one-character tokens.
Digit(d) == CASE d = 0 -> "0" [] d = 1 -> "1" [] d = 2 -> "2" [] d = 3 -> "3"
              [] d = 4 -> "4" [] d = 5 -> "5" [] d = 6 -> "6" [] d = 7 -> "7"
              [] d = 8 -> "8" [] OTHER -> "9"

DigitValue(c) == CASE c = "0" -> 0 [] c = "1" -> 1 [] c = "2" -> 2 [] c = "3" -> 3
                   [] c = "4" -> 4 [] c = "5" -> 5 [] c = "6" -> 6 [] c = "7" -> 7
                   [] c = "8" -> 8 [] c = "9" -> 9 [] OTHER -> -1

RECURSIVE NatToString(_)
NatToString(n) == IF n < 10 THEN <<Digit(n)>>
                  ELSE NatToString(n \div 10) \o <<Digit(n % 10)>>

\* Number.prototype.toString
NumToString(n) == IF n < 0 THEN <<"-">> \o NatToString(0 - n) ELSE NatToString(n)

RECURSIVE ParseDigits(_, _)
ParseDigits(s, acc) ==
    IF s = <<>> \/ DigitValue(Head(s)) < 0 THEN acc
    ELSE ParseDigits(Tail(s), acc * 10 + DigitValue(Head(s)))

\* parseInt on the strings the program passes to it (a group id string)
ParseInt(s) == IF s # <<>> /\ Head(s) = "-" THEN 0 - ParseDigits(Tail(s), 0)
               ELSE ParseDigits(s, 0)

\* String.prototype.startsWith
StartsWith(s, p) == Len(p) <= Len(s) /\ SubSeq(s, 1, Len(p)) = p

LowerChar(c) == CASE c = "A" -> "a" [] c = "B" -> "b" [] OTHER -> c

\* String.prototype.toLowerCase
ToLowerCase(s) == [i \in 1..Len(s) |-> LowerChar(s[i])]

RECURSIVE TrimStart(_)
TrimStart(s) == IF s # <<>> /\ Head(s) = " " THEN TrimStart(Tail(s)) ELSE s

RECURSIVE TrimEnd(_)
TrimEnd(s) == IF s # <<>> /\ s[Len(s)] = " " THEN TrimEnd(SubSeq(s, 1, Len(s) - 1)) ELSE s

\* String.prototype.trim
Trim(s) == TrimEnd(TrimStart(s))

\* String.prototype.includes for a one-token needle
Includes(s, c) == \E i \in 1..Len(s) : s[i] = c

\* ------------------------------------------------------------- universe
BotIds == {1, 12}             \* bot identities (one is a decimal prefix of the other)
GroupChat == 0 - 7            \* chat id of the group
PrivateChat == 1              \* chat id of a private chat
Chats == {GroupChat, PrivateChat}
UserIds == {1, 2, 3}
ActIds == {1, 2}
Roles == {"administrator", "creator", "member"}

\* ctx.from.username of the three users (the third has none)
Username(u) == CASE u = 1 -> <<"A">> [] u = 2 -> <<"b">> [] OTHER -> NullStr

\* ctx.botInfo.username, as it appears in a message that mentions the bot
BotMention == "@bot"

\* ctx.chat.type
ChatType(c) == IF c > 0 THEN "private" ELSE "group"

GroupIds == {NumToString(c) : c \in {GroupChat}}

CodeX == <<"x">>
CodeY == <<"y">>

VARIABLES
    now,                \* Date.now()
    ticks,              \* advances of the clock still allowed
    nEvents,            \* inbound events still to be delivered
    nFail,              \* failures of external calls still allowed
    db,                 \* table activations: ActIds -> row
    bots,               \* BotManagerService.bots: identities of the running instances
    botStartTime,       \* per instance: botStartTime of setupActivationCommand
    activationStates,   \* per instance: stateKey -> ActivationState (has = FALSE: no entry)
    pendingActivations, \* per instance: chat id -> ActivationAttempt (NoAttempt: no entry)
    activationMessages, \* per instance: chat id -> message ids (has = FALSE: no entry)
    timers,             \* outstanding setTimeout callbacks
    nextMsgId,          \* message_id the transport gives to the next message
    tasks,              \* handlers in flight
    redemptions,       \* history: per row, redemption updates (pending to active) performed
    hookCalls,          \* history: per row, invocations of generateAndSavePrompts
    expiryNotices,      \* history: 'Activation request has expired' messages sent
    manager,            \* BotManagerService: registry order, launches, channel, cleanup()
    passedAdmin         \* history: per instance and chat, users whose /activation passed the role checks

vars == <<now, ticks, nEvents, nFail, db, bots, botStartTime, activationStates,
          pendingActivations, activationMessages, timers, nextMsgId, tasks,
          redemptions, hookCalls, expiryNotices, manager, passedAdmin>>

Slots == 1..MaxTasks

\* A row of the table as the web application creates it: unused, unbound, pending
NewRow(id, code, user, botid, hours) ==
    [id |-> id, verification_code |-> code, telegram_authorized_user |-> user,
     selectedbotid |-> botid, verification_used_at |-> NullNum,
     activation_status |-> "pending", duration_hours |-> hours,
     telegram_group_id |-> NullStr, activation_start |-> NullNum,
     activation_end |-> NullNum]

\* The result of a query that found no row (data: null)
NoData == NewRow(NoRow, NullStr, NullStr, NullStr, NullNum)

Idle == [kind |-> "idle", pc |-> "idle", bot |-> 0, chat |-> 0, from |-> 0, date |-> 0,
         text |-> <<>>, target |-> 0, found |-> NoRow, row |-> NoData, ok |-> TRUE,
         reply |-> NoReply, roles |-> <<"member", "member">>, msg |-> 0,
         verdict |-> "none", hook |-> "none", data |-> <<>>]

NewTask(kind, b, c, u, date, text, target) ==
    [Idle EXCEPT !.kind = kind, !.bot = b, !.chat = c, !.from = u, !.date = date,
                 !.text = text, !.target = target]

\* No entry of activationStates, and the entry getActivationState creates
NoState == [has |-> FALSE, inProgress |-> FALSE, lastAttempt |-> 0, attempts |-> 0,
            isActive |-> FALSE]

NewState(active) == [NoState EXCEPT !.has = TRUE, !.isActive = active]

NoAttempt == [userId |-> 0, chatId |-> 0, timestamp |-> NullNum]

NoMessages == [has |-> FALSE, ids |-> <<>>]

InitMemory ==
    /\ activationStates = [b \in BotIds |-> [g \in GroupIds |-> NoState]]
    /\ pendingActivations = [b \in BotIds |-> [c \in Chats |-> NoAttempt]]
    /\ activationMessages = [b \in BotIds |-> [c \in Chats |-> NoMessages]]
    /\ timers = {}
    /\ nextMsgId = 1
    /\ tasks = [i \in Slots |-> Idle]

InitCounters ==
    /\ now = HOUR_MS
    /\ redemptions = [a \in ActIds |-> 0]
    /\ hookCalls = [a \in ActIds |-> 0]
    /\ expiryNotices = 0
    /\ passedAdmin = [b \in BotIds |-> [c \in Chats |-> {}]]

\* Row 2 as the specifications start it: waiting for bot 12, for bot 1, for bot 2,
\* waiting without an authorized user, or redeemed and expired in the group before
\* the instance started
Row2Variants ==
    { NewRow(2, CodeY, <<"@", "A">>, NumToString(12), NullNum),
      NewRow(2, CodeY, NullStr, NumToString(12), NullNum),
      NewRow(2, CodeY, <<"@", "A">>, NumToString(1), NullNum),
      NewRow(2, CodeY, <<"@", "A">>, NumToString(2), NullNum),
      [NewRow(2, CodeY, <<"@", "A">>, NumToString(12), 3)
          EXCEPT !.activation_status = "expired", !.verification_used_at = 0,
                 !.activation_start = 0, !.activation_end = 3 * HOUR_MS,
                 !.telegram_group_id = NumToString(GroupChat)] }

\* BotManagerService after initializeBots: bot 12 is registered and launched, the
\* change stream of table bots is subscribed, cleanup() has not been called, no
\* addNewBot call is under way, no notification is in flight, and no instance has
\* been replaced in the registry
StartedManager ==
    [pc |-> "serving", rows |-> {12}, order |-> <<12>>, at |-> 0, launching |-> {},
     running |-> {12}, channel |-> TRUE, adding |-> {}, notify |-> {}, orphans |-> {}]

\* One instance (identity 12) is running since now; row 1 waits for bot 12 with a
\* duration of three hours
InitWith(row2) ==
    /\ InitCounters
    /\ InitMemory
    /\ bots = {12}
    /\ manager = StartedManager
    /\ botStartTime = [b \in BotIds |-> HOUR_MS]
    /\ db = [a \in ActIds |->
               IF a = 1 THEN NewRow(1, CodeX, <<"@", "a">>, NumToString(12), 3) ELSE row2]

\* ------------------------------------------------------------ the store
\* Rows that are active for a bot identity in a group
ActiveRows(groupId, botStr) ==
    {a \in ActIds : /\ db[a].telegram_group_id = groupId
                    /\ db[a].activation_status = "active"
                    /\ db[a].selectedbotid = botStr}

\* ... order by created_at descending, limit 1, single(): the newest such row
\* (rows are numbered in the order of their creation)
QueryActive(groupId, botStr) ==
    LET m == ActiveRows(groupId, botStr)
    IN  IF m = {} THEN NoRow ELSE CHOOSE a \in m : \A x \in m : x <= a

\* ... single() without a limit: the row if there is exactly one, else an error
QueryActiveSingle(groupId, botStr) ==
    LET m == ActiveRows(groupId, botStr)
    IN  IF Cardinality(m) = 1 THEN CHOOSE a \in m : TRUE ELSE NoRow

\* select ... eq('verification_code', code).single()
QueryByCode(code) ==
    LET m == {a \in ActIds : db[a].verification_code = code}
    IN  IF Cardinality(m) = 1 THEN db[CHOOSE a \in m : TRUE] ELSE NoData

\* ------------------------------------------------- external call outcomes
\* Every external call (transport, store, completion service) may fail.
Outcomes == IF nFail > 0 THEN {TRUE, FALSE} ELSE {TRUE}

Failed(ok) == IF ok THEN nFail ELSE nFail - 1

\* ctx.reply / ctx.answerCbQuery: the message goes out unless the call fails
Send(t, kind, ok) == [t EXCEPT !.ok = ok, !.reply = IF ok THEN kind ELSE @]

\* A handler starts in the lowest free slot
FreeSlot(i) == /\ tasks[i].kind = "idle"
               /\ \A j \in Slots : j < i => tasks[j].kind # "idle"

At(i, kind, pc) == tasks[i].kind = kind /\ tasks[i].pc = pc

\* ----------------------------------------------------- in-memory helpers
\* getActivationState after its query returned: create the entry, refresh isActive
StateAfterLookup(b, groupId, active) ==
    IF activationStates[b][groupId].has
    THEN [activationStates[b][groupId] EXCEPT !.isActive = active]
    ELSE NewState(active)

\* cleanupPendingActivation
cleanupPendingActivation(pa, b, chatId) ==
    IF chatId \in Chats THEN [pa EXCEPT ![b][chatId] = NoAttempt] ELSE pa

cleanupMessages(am, b, chatId) ==
    IF chatId \in Chats THEN [am EXCEPT ![b][chatId] = NoMessages] ELSE am

\* cleanupActivation: the part on activationStates
cleanupState(as, b, groupId) ==
    IF as[b][groupId].has
    THEN [as EXCEPT ![b][groupId].inProgress = FALSE,
                    ![b][groupId].attempts =
                        IF now - as[b][groupId].lastAttempt > COOLDOWN_MS THEN 0 ELSE @]
    ELSE as

\* cleanupActivation(groupId) applied to the three maps
cleanupActivation(b, groupId) ==
    /\ activationStates' = cleanupState(activationStates, b, groupId)
    /\ pendingActivations' = cleanupPendingActivation(pendingActivations, b, ParseInt(groupId))
    /\ activationMessages' = cleanupMessages(activationMessages, b, ParseInt(groupId))

\* A role check that lets every member of the group pass
IsAdminOrMember(role) == role \in {"administrator", "creator", "member"}

\* ['administrator', 'creator'].includes(member.status)
IsAdmin(role) == role \in {"administrator", "creator"}

\* ------------------------------------------------- bot.command('activation')
\* A counter that is never restarted when the window has passed
RateCountNoRestart(st) == st.attempts + 1

\* The rate limiter: state.attempts after this attempt was counted
RateCount(st) == IF now - st.lastAttempt < WINDOW_MS THEN st.attempts + 1 ELSE 1

\* The limiter rejecting as soon as the counter reaches the maximum
RateLimitedAtMax(st) ==
    now - st.lastAttempt < WINDOW_MS /\ RateCount(st) >= MAX_ATTEMPTS

\* The rate limiter: the attempt is inside the window and over the maximum
RateLimited(st) ==
    now - st.lastAttempt < WINDOW_MS /\ RateCount(st) > MAX_ATTEMPTS

\* A rejection that also stamps the attempt as the last one
RateRejectedStamped(st) == [st EXCEPT !.attempts = RateCount(st), !.lastAttempt = now]

\* The runtime state a rate-limited rejection leaves: state.attempts++ and return
RateRejected(st) == [st EXCEPT !.attempts = RateCount(st)]

\* A handler that consults the rate limiter before the two flags
CmdCheckLimiterFirst(st) ==
    IF RateLimited(st) THEN "rate_limited"
    ELSE IF st.isActive THEN "already_activated"
    ELSE IF st.inProgress THEN "in_progress"
    ELSE "roles"

\* The precondition of /activation that stops the request, in the order of the
\* handler: state.isActive, state.inProgress, the rate limiter; else the role lookups
CmdCheck(st) ==
    IF st.isActive THEN "already_activated"
    ELSE IF st.inProgress THEN "in_progress"
    ELSE IF RateLimited(st) THEN "rate_limited"
    ELSE "roles"

\* Delivery of /activation: fence, private-chat check, getActivationState's query
ActivationCommand(i, b, c, u, date) ==
    /\ FreeSlot(i) /\ nEvents > 0 /\ b \in bots
    /\ nEvents' = nEvents - 1
    /\ LET t == NewTask("cmd", b, c, u, date, <<>>, 0) IN
       IF date * SECOND_MS < botStartTime[b]
       THEN tasks' = tasks /\ nFail' = nFail
       ELSE \E ok \in Outcomes :
              /\ nFail' = Failed(ok)
              /\ tasks' = [tasks EXCEPT ![i] =
                    IF ChatType(c) = "private"
                    THEN Send([t EXCEPT !.pc = "cmd_end"], "private_only", ok)
                    ELSE [t EXCEPT !.pc = "cmd_state",
                                   !.found = IF ok THEN QueryActive(NumToString(c), NumToString(b))
                                             ELSE NoRow]]
    /\ UNCHANGED <<now, ticks, db, bots, botStartTime, activationStates, pendingActivations,
                   activationMessages, timers, nextMsgId, redemptions, hookCalls, expiryNotices, manager,
                   passedAdmin>>

\* After getActivationState: already active, in progress, rate limit, role lookups
CmdState(i) ==
    /\ At(i, "cmd", "cmd_state")
    /\ LET t == tasks[i]
           g == NumToString(t.chat)
           st == StateAfterLookup(t.bot, g, t.found # NoRow)
           counted == RateCount(st)
       IN
       \E ok \in Outcomes :
         /\ nFail' = Failed(ok)
         /\ IF CmdCheck(st) = "already_activated"
            THEN /\ activationStates' = [activationStates EXCEPT ![t.bot][g] = st]
                 /\ tasks' = [tasks EXCEPT ![i] = Send([t EXCEPT !.pc = "cmd_end"], "already_activated", ok)]
            ELSE IF CmdCheck(st) = "in_progress"
            THEN /\ activationStates' = [activationStates EXCEPT ![t.bot][g] = st]
                 /\ tasks' = [tasks EXCEPT ![i] = Send([t EXCEPT !.pc = "cmd_end"], "in_progress", ok)]
            ELSE IF CmdCheck(st) = "rate_limited"
            THEN /\ activationStates' = [activationStates EXCEPT ![t.bot][g] = RateRejected(st)]
                 /\ tasks' = [tasks EXCEPT ![i] = Send([t EXCEPT !.pc = "cmd_end"], "rate_limited", ok)]
            ELSE /\ activationStates' = [activationStates EXCEPT ![t.bot][g] =
                                            [st EXCEPT !.attempts = counted, !.lastAttempt = now]]
                 /\ \E ur \in Roles, br \in Roles :
                      /\ ok \/ (ur = "member" /\ br = "member")
                      /\ tasks' = [tasks EXCEPT ![i] =
                                  [t EXCEPT !.pc = "cmd_roles", !.ok = ok, !.roles = <<ur, br>>]]
    /\ UNCHANGED <<now, ticks, nEvents, db, bots, botStartTime, pendingActivations,
                   activationMessages, timers, nextMsgId, redemptions, hookCalls, expiryNotices, manager,
                   passedAdmin>>

\* After the two getChatMember lookups: role checks, then the selection keyboard
CmdRoles(i) ==
    /\ At(i, "cmd", "cmd_roles")
    /\ LET t == tasks[i] IN
       \E ok \in Outcomes :
         /\ nFail' = Failed(ok)
         /\ IF ~t.ok
            THEN /\ tasks' = [tasks EXCEPT ![i] = Send([t EXCEPT !.pc = "cmd_innercatch"], "lookup_failed", ok)]
                 /\ nextMsgId' = nextMsgId
            ELSE IF ~IsAdmin(t.roles[1])
            THEN /\ tasks' = [tasks EXCEPT ![i] = Send([t EXCEPT !.pc = "cmd_reject"], "need_admin", ok)]
                 /\ nextMsgId' = nextMsgId
            ELSE IF ~IsAdmin(t.roles[2])
            THEN /\ tasks' = [tasks EXCEPT ![i] = Send([t EXCEPT !.pc = "cmd_reject"], "promote_me", ok)]
                 /\ nextMsgId' = nextMsgId
            ELSE /\ tasks' = [tasks EXCEPT ![i] =
                        Send([t EXCEPT !.pc = "cmd_posted", !.msg = nextMsgId], "keyboard", ok)]
                 /\ nextMsgId' = IF ok THEN nextMsgId + 1 ELSE nextMsgId
         /\ passedAdmin' = IF t.ok /\ IsAdmin(t.roles[1]) /\ IsAdmin(t.roles[2])
                        THEN [passedAdmin EXCEPT ![t.bot][t.chat] = @ \cup {t.from}]
                        ELSE passedAdmin
    /\ UNCHANGED <<now, ticks, nEvents, db, bots, botStartTime, activationStates,
                   pendingActivations, activationMessages, timers, redemptions, hookCalls, expiryNotices, manager>>

\* After the reply of a failed role check: cleanupActivation, or the inner catch
CmdReject(i) ==
    /\ At(i, "cmd", "cmd_reject")
    /\ LET t == tasks[i] IN
       IF t.ok
       THEN /\ cleanupActivation(t.bot, NumToString(t.chat))
            /\ tasks' = [tasks EXCEPT ![i] = Idle]
            /\ nFail' = nFail
       ELSE /\ \E ok \in Outcomes :
                 /\ nFail' = Failed(ok)
                 /\ tasks' = [tasks EXCEPT ![i] = Send([t EXCEPT !.pc = "cmd_innercatch"], "lookup_failed", ok)]
            /\ UNCHANGED <<activationStates, pendingActivations, activationMessages>>
    /\ UNCHANGED <<now, ticks, nEvents, db, bots, botStartTime, timers, nextMsgId,
                   redemptions, hookCalls, expiryNotices, manager, passedAdmin>>

\* After the reply of the inner catch: cleanupActivation, or the outer catch
CmdInnerCatch(i) ==
    /\ At(i, "cmd", "cmd_innercatch")
    /\ LET t == tasks[i] IN
       IF t.ok
       THEN /\ cleanupActivation(t.bot, NumToString(t.chat))
            /\ tasks' = [tasks EXCEPT ![i] = Idle]
            /\ nFail' = nFail
       ELSE /\ \E ok \in Outcomes :
                 /\ nFail' = Failed(ok)
                 /\ tasks' = [tasks EXCEPT ![i] = Send([t EXCEPT !.pc = "cmd_caught"], "error", ok)]
            /\ UNCHANGED <<activationStates, pendingActivations, activationMessages>>
    /\ UNCHANGED <<now, ticks, nEvents, db, bots, botStartTime, timers, nextMsgId,
                   redemptions, hookCalls, expiryNotices, manager, passedAdmin>>

\* After the keyboard was posted: remember its id, schedule its deletion
CmdPosted(i) ==
    /\ At(i, "cmd", "cmd_posted")
    /\ LET t == tasks[i]
           old == activationMessages[t.bot][t.chat]
       IN
       IF t.ok
       THEN /\ activationMessages' = [activationMessages EXCEPT ![t.bot][t.chat] =
                    [has |-> TRUE, ids |-> Append(old.ids, t.msg)]]
            /\ timers' = timers \cup {[kind |-> "message", bot |-> t.bot, chat |-> t.chat,
                                       msg |-> t.msg, at |-> now + MESSAGE_TTL_MS]}
            /\ tasks' = [tasks EXCEPT ![i] = Idle]
            /\ nFail' = nFail
       ELSE /\ \E ok \in Outcomes :
                 /\ nFail' = Failed(ok)
                 /\ tasks' = [tasks EXCEPT ![i] = Send([t EXCEPT !.pc = "cmd_caught"], "error", ok)]
            /\ UNCHANGED <<activationMessages, timers>>
    /\ UNCHANGED <<now, ticks, nEvents, db, bots, botStartTime, activationStates,
                   pendingActivations, nextMsgId, redemptions, hookCalls, expiryNotices, manager,
                   passedAdmin>>

\* After a reply that is followed by return: done, or the outer catch
CmdEnd(i) ==
    /\ At(i, "cmd", "cmd_end")
    /\ LET t == tasks[i] IN
       IF t.ok
       THEN tasks' = [tasks EXCEPT ![i] = Idle] /\ nFail' = nFail
       ELSE \E ok \in Outcomes :
                 /\ nFail' = Failed(ok)
                 /\ tasks' = [tasks EXCEPT ![i] = Send([t EXCEPT !.pc = "cmd_caught"], "error", ok)]
    /\ UNCHANGED <<now, ticks, nEvents, db, bots, botStartTime, activationStates,
                   pendingActivations, activationMessages, timers, nextMsgId,
                   redemptions, hookCalls, expiryNotices, manager, passedAdmin>>

\* After the reply of the outer catch: the handler ends whether it was sent or not
CmdCaught(i) ==
    /\ At(i, "cmd", "cmd_caught")
    /\ tasks' = [tasks EXCEPT ![i] = Idle]
    /\ UNCHANGED <<now, ticks, nEvents, nFail, db, bots, botStartTime, activationStates,
                   pendingActivations, activationMessages, timers, nextMsgId,
                   redemptions, hookCalls, expiryNotices, manager, passedAdmin>>

\* The timer of the keyboard message (setTimeout, one minute)
MessageTimer(tm) ==
    /\ tm \in timers /\ tm.kind = "message" /\ now >= tm.at
    /\ timers' = timers \ {tm}
    /\ LET old == activationMessages[tm.bot][tm.chat] IN
       activationMessages' =
           IF \E k \in 1..Len(old.ids) : old.ids[k] = tm.msg
           THEN [activationMessages EXCEPT ![tm.bot][tm.chat] =
                    [has |-> TRUE, ids |-> SelectSeq(old.ids, LAMBDA x : x # tm.msg)]]
           ELSE activationMessages
    /\ UNCHANGED <<now, ticks, nEvents, nFail, db, bots, botStartTime, activationStates,
                   pendingActivations, nextMsgId, tasks, redemptions, hookCalls, expiryNotices, manager,
                   passedAdmin>>

\* ------------------------------------------------ bot.action(/select_bot:(\d+)/)
\* The callback data select_bot:<n> or select_bot:<n>:<m> is given as <<n>> or
\* <<n, m>>.  The pattern is not anchored, so this handler, registered first,
\* takes both forms and reads the first number as the bot identity.
SelectBot(i, b, c, u, payload, date) ==
    /\ FreeSlot(i) /\ nEvents > 0 /\ b \in bots
    /\ ChatType(c) = "group"
    /\ nEvents' = nEvents - 1
    /\ LET t == [NewTask("sel", b, c, u, date, <<>>, payload[1]) EXCEPT !.data = payload] IN
       \E ok \in Outcomes :
         /\ nFail' = Failed(ok)
         /\ tasks' = [tasks EXCEPT ![i] =
               IF date * SECOND_MS < botStartTime[b]
               THEN Send([t EXCEPT !.pc = "sel_done"], "callback_expired", ok)
               ELSE [t EXCEPT !.pc = "sel_state",
                              !.found = IF ok THEN QueryActive(NumToString(c), NumToString(b))
                                        ELSE NoRow]]
    /\ UNCHANGED <<now, ticks, db, bots, botStartTime, activationStates, pendingActivations,
                   activationMessages, timers, nextMsgId, redemptions, hookCalls, expiryNotices, manager,
                   passedAdmin>>

\* After getActivationState: active check, target check, then the attempt is recorded
SelState(i) ==
    /\ At(i, "sel", "sel_state")
    /\ LET t == tasks[i]
           g == NumToString(t.chat)
           st == StateAfterLookup(t.bot, g, t.found # NoRow)
           old == activationMessages[t.bot][t.chat]
       IN
       IF st.isActive
       THEN /\ activationStates' = [activationStates EXCEPT ![t.bot][g] = st]
            /\ \E ok \in Outcomes :
                 /\ nFail' = Failed(ok)
                 /\ tasks' = [tasks EXCEPT ![i] = Send([t EXCEPT !.pc = "sel_done"], "already_active", ok)]
            /\ UNCHANGED <<pendingActivations, activationMessages, nextMsgId>>
       ELSE IF t.target # t.bot
       THEN /\ activationStates' = [activationStates EXCEPT ![t.bot][g] = st]
            /\ tasks' = [tasks EXCEPT ![i] = Idle]
            /\ UNCHANGED <<nFail, pendingActivations, activationMessages, nextMsgId>>
       ELSE /\ activationStates' = [activationStates EXCEPT ![t.bot][g] =
                                       [st EXCEPT !.inProgress = TRUE]]
            /\ pendingActivations' = [pendingActivations EXCEPT ![t.bot][t.chat] =
                    [userId |-> t.from, chatId |-> t.chat, timestamp |-> now]]
            /\ IF old.ids # <<>>
               THEN \* await deleteMessage for the messages of the registry
                    /\ tasks' = [tasks EXCEPT ![i] = [t EXCEPT !.pc = "sel_deleting"]]
                    /\ UNCHANGED <<nFail, activationMessages, nextMsgId>>
               ELSE /\ activationMessages' = cleanupMessages(activationMessages, t.bot, t.chat)
                    /\ \E ok \in Outcomes :
                         /\ nFail' = Failed(ok)
                         /\ nextMsgId' = IF ok THEN nextMsgId + 1 ELSE nextMsgId
                         /\ tasks' = [tasks EXCEPT ![i] =
                               Send([t EXCEPT !.pc = "sel_replied", !.msg = nextMsgId], "selected", ok)]
    /\ UNCHANGED <<now, ticks, nEvents, db, bots, botStartTime, timers, redemptions, hookCalls, expiryNotices, manager,
                   passedAdmin>>

\* After the deletions (their errors are ignored): drop the registry entry, ask for the code
SelDeleting(i) ==
    /\ At(i, "sel", "sel_deleting")
    /\ LET t == tasks[i] IN
       /\ activationMessages' = cleanupMessages(activationMessages, t.bot, t.chat)
       /\ \E ok \in Outcomes :
            /\ nFail' = Failed(ok)
            /\ nextMsgId' = IF ok THEN nextMsgId + 1 ELSE nextMsgId
            /\ tasks' = [tasks EXCEPT ![i] =
                  Send([t EXCEPT !.pc = "sel_replied", !.msg = nextMsgId], "selected", ok)]
    /\ UNCHANGED <<now, ticks, nEvents, db, bots, botStartTime, activationStates,
                   pendingActivations, timers, redemptions, hookCalls, expiryNotices, manager,
                   passedAdmin>>

\* After the request for the code: registry, expiry timer, acknowledgement; or the catch
SelReplied(i) ==
    /\ At(i, "sel", "sel_replied")
    /\ LET t == tasks[i]
           g == NumToString(t.chat)
       IN
       \E ok \in Outcomes :
         /\ nFail' = Failed(ok)
         /\ IF t.ok
            THEN /\ activationMessages' = [activationMessages EXCEPT ![t.bot][t.chat] =
                        [has |-> TRUE, ids |-> <<t.msg>>]]
                 /\ timers' = timers \cup {[kind |-> "pending", bot |-> t.bot, chat |-> t.chat,
                                            msg |-> 0, at |-> now + PENDING_TTL_MS]}
                 /\ tasks' = [tasks EXCEPT ![i] = Send([t EXCEPT !.pc = "sel_ack"], "ack", ok)]
                 /\ UNCHANGED activationStates
            ELSE /\ activationStates' = [activationStates EXCEPT ![t.bot][g].inProgress = FALSE]
                 /\ tasks' = [tasks EXCEPT ![i] = Send([t EXCEPT !.pc = "sel_catch"], "callback_error", ok)]
                 /\ UNCHANGED <<activationMessages, timers>>
    /\ UNCHANGED <<now, ticks, nEvents, db, bots, botStartTime, pendingActivations,
                   nextMsgId, redemptions, hookCalls, expiryNotices, manager, passedAdmin>>

\* After the acknowledgement: done, or the catch
SelAck(i) ==
    /\ At(i, "sel", "sel_ack")
    /\ LET t == tasks[i]
           g == NumToString(t.chat)
       IN
       IF t.ok
       THEN /\ tasks' = [tasks EXCEPT ![i] = Idle]
            /\ UNCHANGED <<nFail, activationStates>>
       ELSE /\ activationStates' = [activationStates EXCEPT ![t.bot][g].inProgress = FALSE]
            /\ \E ok \in Outcomes :
                 /\ nFail' = Failed(ok)
                 /\ tasks' = [tasks EXCEPT ![i] = Send([t EXCEPT !.pc = "sel_catch"], "callback_error", ok)]
    /\ UNCHANGED <<now, ticks, nEvents, db, bots, botStartTime, pendingActivations,
                   activationMessages, timers, nextMsgId, redemptions, hookCalls, expiryNotices, manager,
                   passedAdmin>>

\* After the answer of the catch: cleanupActivation if the answer went out
SelCatch(i) ==
    /\ At(i, "sel", "sel_catch")
    /\ LET t == tasks[i] IN
       IF t.ok
       THEN cleanupActivation(t.bot, NumToString(t.chat))
       ELSE UNCHANGED <<activationStates, pendingActivations, activationMessages>>
    /\ tasks' = [tasks EXCEPT ![i] = Idle]
    /\ UNCHANGED <<now, ticks, nEvents, nFail, db, bots, botStartTime, timers, nextMsgId,
                   redemptions, hookCalls, expiryNotices, manager, passedAdmin>>

\* After an answer given outside the try block: the handler ends
SelDone(i) ==
    /\ At(i, "sel", "sel_done")
    /\ tasks' = [tasks EXCEPT ![i] = Idle]
    /\ UNCHANGED <<now, ticks, nEvents, nFail, db, bots, botStartTime, activationStates,
                   pendingActivations, activationMessages, timers, nextMsgId,
                   redemptions, hookCalls, expiryNotices, manager, passedAdmin>>

\* An expiry timer that does not look for an outstanding attempt when it fires
PendingTimerUnchecked(tm) ==
    /\ tm \in timers /\ tm.kind = "pending" /\ now >= tm.at
    /\ timers' = timers \ {tm}
    /\ cleanupActivation(tm.bot, NumToString(tm.chat))
    /\ \E ok \in Outcomes :
         /\ nFail' = Failed(ok)
         /\ expiryNotices' = IF ok THEN expiryNotices + 1 ELSE expiryNotices
    /\ UNCHANGED <<now, ticks, nEvents, db, bots, botStartTime, nextMsgId, tasks,
                   redemptions, hookCalls, manager, passedAdmin>>

\* The expiry timer of a selection (setTimeout, five minutes): if an attempt is
\* outstanding for the chat, cleanupActivation and the notice (a failure is logged)
PendingTimer(tm) ==
    /\ tm \in timers /\ tm.kind = "pending" /\ now >= tm.at
    /\ timers' = timers \ {tm}
    /\ IF pendingActivations[tm.bot][tm.chat] # NoAttempt
       THEN /\ cleanupActivation(tm.bot, NumToString(tm.chat))
            /\ \E ok \in Outcomes :
                 /\ nFail' = Failed(ok)
                 /\ expiryNotices' = IF ok THEN expiryNotices + 1 ELSE expiryNotices
       ELSE UNCHANGED <<activationStates, pendingActivations, activationMessages, nFail,
                        expiryNotices>>
    /\ UNCHANGED <<now, ticks, nEvents, db, bots, botStartTime, nextMsgId, tasks,
                   redemptions, hookCalls, manager, passedAdmin>>

\* ------------------------------------------------------- bot.on('text')
\* `@${ctx.from.username}` or null
UserUsername(u) == IF Username(u) = NullStr THEN NullStr ELSE <<"@">> \o Username(u)

\* The redemption checks on the row the lookup returned, in the order of the code;
\* "ok" when all of them pass, "type_error" when toLowerCase is called on the null
\* telegram_authorized_user of the row (the handler throws into its outer catch)
RedemptionCheck(row, u, b) ==
    IF row.id = NoRow THEN "invalid_code"
    ELSE IF row.verification_used_at # NullNum \/ row.activation_status # "pending"
    THEN "already_used"
    ELSE IF UserUsername(u) # NullStr /\ row.telegram_authorized_user = NullStr
    THEN "type_error"
    ELSE IF \/ UserUsername(u) = NullStr
            \/ ToLowerCase(UserUsername(u)) # ToLowerCase(row.telegram_authorized_user)
    THEN "unauthorized"
    ELSE IF \/ row.selectedbotid = NullStr \/ row.selectedbotid = <<>>
            \/ ~StartsWith(NumToString(b), row.selectedbotid)
    THEN "bot_mismatch"
    ELSE "ok"

\* activationEnd of the first update: start plus the hours, or start itself
\* when duration_hours is null or 0
ActivationEnd(start, hours) ==
    IF hours # NullNum /\ hours # 0 THEN start + hours * HOUR_MS ELSE start

\* The conversational handler, entered by next(): command and mention filters,
\* then its query for the active row of this bot in this group
Conversational(t) ==
    IF t.text # <<>> /\ Head(t.text) = "/" THEN Idle
    ELSE IF ~Includes(t.text, BotMention) THEN Idle
    ELSE [t EXCEPT !.pc = "cv_active",
                   !.found = QueryActive(NumToString(t.chat), NumToString(t.bot))]

\* Delivery of a text message: fence, private-chat check, getActivationState's query
TextMessage(i, b, c, u, text, date) ==
    /\ FreeSlot(i) /\ nEvents > 0 /\ b \in bots
    /\ nEvents' = nEvents - 1
    /\ LET t == NewTask("txt", b, c, u, date, text, 0) IN
       IF date * SECOND_MS < botStartTime[b] \/ ChatType(c) = "private"
       THEN tasks' = [tasks EXCEPT ![i] = Conversational(t)] /\ nFail' = nFail
       ELSE \E ok \in Outcomes :
              /\ nFail' = Failed(ok)
              /\ tasks' = [tasks EXCEPT ![i] =
                    [t EXCEPT !.pc = "txt_state",
                              !.found = IF ok THEN QueryActive(NumToString(c), NumToString(b))
                                        ELSE NoRow]]
    /\ UNCHANGED <<now, ticks, db, bots, botStartTime, activationStates, pendingActivations,
                   activationMessages, timers, nextMsgId, redemptions, hookCalls, expiryNotices, manager,
                   passedAdmin>>

\* A handler that takes the text of any member of the group as the awaited code
AwaitedFromAnyone(st, pa, u) == st.inProgress /\ pa # NoAttempt

\* The two tests before the code is looked up: the pair is in progress with an
\* attempt recorded for the chat, and the sender is the user of that attempt
AwaitedFrom(st, pa, u) == st.inProgress /\ pa # NoAttempt /\ u = pa.userId

\* After getActivationState: is a code awaited from this user?  Then look the code up
TxtState(i) ==
    /\ At(i, "txt", "txt_state")
    /\ LET t == tasks[i]
           g == NumToString(t.chat)
           st == StateAfterLookup(t.bot, g, t.found # NoRow)
           pa == pendingActivations[t.bot][t.chat]
       IN
       /\ activationStates' = [activationStates EXCEPT ![t.bot][g] = st]
       /\ IF ~AwaitedFrom(st, pa, t.from)
          THEN tasks' = [tasks EXCEPT ![i] = Conversational(t)] /\ nFail' = nFail
          ELSE \E ok \in Outcomes :
                 /\ nFail' = Failed(ok)
                 /\ tasks' = [tasks EXCEPT ![i] =
                       [t EXCEPT !.pc = "txt_lookup",
                                 !.row = IF ok THEN QueryByCode(Trim(t.text)) ELSE NoData]]
    /\ UNCHANGED <<now, ticks, nEvents, db, bots, botStartTime, pendingActivations,
                   activationMessages, timers, nextMsgId, redemptions, hookCalls, expiryNotices, manager,
                   passedAdmin>>

\* After the lookup: the redemption checks, then the update that activates the row
TxtLookup(i) ==
    /\ At(i, "txt", "txt_lookup")
    /\ LET t == tasks[i]
           verdict == RedemptionCheck(t.row, t.from, t.bot)
           id == t.row.id
       IN
       \E ok \in Outcomes :
         /\ nFail' = Failed(ok)
         /\ IF verdict = "type_error"
            THEN /\ tasks' = [tasks EXCEPT ![i] =
                        Send([t EXCEPT !.pc = "txt_outer", !.verdict = verdict],
                             "verification_error", ok)]
                 /\ UNCHANGED <<db, redemptions>>
            ELSE IF verdict # "ok"
            THEN /\ tasks' = [tasks EXCEPT ![i] =
                        Send([t EXCEPT !.pc = "txt_reject", !.verdict = verdict], verdict, ok)]
                 /\ UNCHANGED <<db, redemptions>>
            ELSE /\ tasks' = [tasks EXCEPT ![i] =
                        [t EXCEPT !.pc = "txt_updated", !.verdict = verdict, !.ok = ok]]
                 /\ db' = IF ok
                          THEN [db EXCEPT ![id].activation_start = now,
                                          ![id].activation_end = ActivationEnd(now, t.row.duration_hours),
                                          ![id].verification_used_at = now,
                                          ![id].activation_status = "active"]
                          ELSE db
                 /\ redemptions' = IF ok THEN [redemptions EXCEPT ![id] = @ + 1] ELSE redemptions
    /\ UNCHANGED <<now, ticks, nEvents, bots, botStartTime, activationStates,
                   pendingActivations, activationMessages, timers, nextMsgId, hookCalls, expiryNotices, manager,
                   passedAdmin>>

\* After the reply of a failed check: cleanupActivation, or the outer catch
TxtReject(i) ==
    /\ At(i, "txt", "txt_reject")
    /\ LET t == tasks[i] IN
       IF t.ok
       THEN /\ cleanupActivation(t.bot, NumToString(t.chat))
            /\ tasks' = [tasks EXCEPT ![i] = Idle]
            /\ nFail' = nFail
       ELSE /\ \E ok \in Outcomes :
                 /\ nFail' = Failed(ok)
                 /\ tasks' = [tasks EXCEPT ![i] = Send([t EXCEPT !.pc = "txt_outer"], "verification_error", ok)]
            /\ UNCHANGED <<activationStates, pendingActivations, activationMessages>>
    /\ UNCHANGED <<now, ticks, nEvents, db, bots, botStartTime, timers, nextMsgId,
                   redemptions, hookCalls, expiryNotices, manager, passedAdmin>>

\* generateAndSavePrompts has returned or thrown: the handler notes the outcome
\* (the throw is caught and logged) and goes on
AfterHook(t, pc, hookOk) ==
    [t EXCEPT !.pc = pc, !.hook = IF hookOk THEN "ok" ELSE "failed"]

\* After the update: on an error the inner catch, else the content-generation hook
TxtUpdated(i) ==
    /\ At(i, "txt", "txt_updated")
    /\ LET t == tasks[i] IN
       \E ok \in Outcomes :
         /\ nFail' = Failed(ok)
         /\ IF ~t.ok
            THEN /\ tasks' = [tasks EXCEPT ![i] = Send([t EXCEPT !.pc = "txt_inner"], "activation_error", ok)]
                 /\ UNCHANGED hookCalls
            ELSE /\ tasks' = [tasks EXCEPT ![i] = AfterHook(t, "txt_hooked", ok)]
                 /\ hookCalls' = [hookCalls EXCEPT ![t.row.id] = @ + 1]
    /\ UNCHANGED <<now, ticks, nEvents, db, bots, botStartTime, activationStates,
                   pendingActivations, activationMessages, timers, nextMsgId, redemptions,
                   expiryNotices, manager, passedAdmin>>

\* ConversationService.addActiveGroup: the update it sends
addActiveGroup(groupId, activationId) ==
    [db EXCEPT ![activationId].activation_status = "active",
               ![activationId].activation_start = now,
               ![activationId].telegram_group_id = groupId]

\* After the hook (its failure is ignored): addActiveGroup
TxtHooked(i) ==
    /\ At(i, "txt", "txt_hooked")
    /\ LET t == tasks[i]
           id == t.row.id
       IN
       \E ok \in Outcomes :
         /\ nFail' = Failed(ok)
         /\ tasks' = [tasks EXCEPT ![i] = [t EXCEPT !.pc = "txt_added", !.ok = ok]]
         /\ db' = IF ok THEN addActiveGroup(NumToString(t.chat), id) ELSE db
    /\ UNCHANGED <<now, ticks, nEvents, bots, botStartTime, activationStates,
                   pendingActivations, activationMessages, timers, nextMsgId,
                   redemptions, hookCalls, expiryNotices, manager, passedAdmin>>

\* After addActiveGroup: on an error the inner catch, else cleanupPendingActivation
\* and the success message
TxtAdded(i) ==
    /\ At(i, "txt", "txt_added")
    /\ LET t == tasks[i] IN
       \E ok \in Outcomes :
         /\ nFail' = Failed(ok)
         /\ IF ~t.ok
            THEN /\ tasks' = [tasks EXCEPT ![i] = Send([t EXCEPT !.pc = "txt_inner"], "activation_error", ok)]
                 /\ UNCHANGED <<pendingActivations, activationMessages>>
            ELSE /\ pendingActivations' = cleanupPendingActivation(pendingActivations, t.bot, t.chat)
                 /\ activationMessages' = cleanupMessages(activationMessages, t.bot, t.chat)
                 /\ tasks' = [tasks EXCEPT ![i] = Send([t EXCEPT !.pc = "txt_success"], "success", ok)]
    /\ UNCHANGED <<now, ticks, nEvents, db, bots, botStartTime, activationStates,
                   timers, nextMsgId, redemptions, hookCalls, expiryNotices, manager, passedAdmin>>

\* After the success message: done, or the inner catch
TxtSuccess(i) ==
    /\ At(i, "txt", "txt_success")
    /\ LET t == tasks[i] IN
       IF t.ok
       THEN tasks' = [tasks EXCEPT ![i] = Idle] /\ nFail' = nFail
       ELSE \E ok \in Outcomes :
              /\ nFail' = Failed(ok)
              /\ tasks' = [tasks EXCEPT ![i] = Send([t EXCEPT !.pc = "txt_inner"], "activation_error", ok)]
    /\ UNCHANGED <<now, ticks, nEvents, db, bots, botStartTime, activationStates,
                   pendingActivations, activationMessages, timers, nextMsgId,
                   redemptions, hookCalls, expiryNotices, manager, passedAdmin>>

\* After the reply of the inner catch: cleanupActivation, or the outer catch
TxtInner(i) ==
    /\ At(i, "txt", "txt_inner")
    /\ LET t == tasks[i] IN
       IF t.ok
       THEN /\ cleanupActivation(t.bot, NumToString(t.chat))
            /\ tasks' = [tasks EXCEPT ![i] = Idle]
            /\ nFail' = nFail
       ELSE /\ \E ok \in Outcomes :
                 /\ nFail' = Failed(ok)
                 /\ tasks' = [tasks EXCEPT ![i] = Send([t EXCEPT !.pc = "txt_outer"], "verification_error", ok)]
            /\ UNCHANGED <<activationStates, pendingActivations, activationMessages>>
    /\ UNCHANGED <<now, ticks, nEvents, db, bots, botStartTime, timers, nextMsgId,
                   redemptions, hookCalls, expiryNotices, manager, passedAdmin>>

\* After the reply of the outer catch: cleanupActivation if the reply went out
TxtOuter(i) ==
    /\ At(i, "txt", "txt_outer")
    /\ LET t == tasks[i] IN
       IF t.ok
       THEN cleanupActivation(t.bot, NumToString(t.chat))
       ELSE UNCHANGED <<activationStates, pendingActivations, activationMessages>>
    /\ tasks' = [tasks EXCEPT ![i] = Idle]
    /\ UNCHANGED <<now, ticks, nEvents, nFail, db, bots, botStartTime, timers, nextMsgId,
                   redemptions, hookCalls, expiryNotices, manager, passedAdmin>>

\* ------------------------------------- conversational handler (after next())
\* After the handler's own query: no active row, or checkAndHandleExpiration's query
CvActive(i) ==
    /\ At(i, "txt", "cv_active")
    /\ LET t == tasks[i]
           a == QueryActiveSingle(NumToString(t.chat), NumToString(t.bot))
       IN
       tasks' = [tasks EXCEPT ![i] =
                    IF t.found = NoRow THEN Idle
                    ELSE [t EXCEPT !.pc = "cv_expiry",
                                   !.row = IF a = NoRow THEN NoData ELSE db[a]]]
    /\ UNCHANGED <<now, ticks, nEvents, nFail, db, bots, botStartTime, activationStates,
                   pendingActivations, activationMessages, timers, nextMsgId,
                   redemptions, hookCalls, expiryNotices, manager, passedAdmin>>

\* currentUTC > activationEndUTC
IsPastEnd(t, end) == end # NullNum /\ t > end

\* The guarded update of checkAndHandleExpiration: match id, selectedbotid, status active
MarkExpired(id, botStr) ==
    IF db[id].selectedbotid = botStr /\ db[id].activation_status = "active"
    THEN [db EXCEPT ![id].activation_status = "expired"]
    ELSE db

\* checkAndHandleExpiration after its query: nothing found, expired (guarded update),
\* or not expired and handleMessage's query
CvExpiry(i) ==
    /\ At(i, "txt", "cv_expiry")
    /\ LET t == tasks[i] IN
       \E ok \in Outcomes :
         /\ nFail' = Failed(ok)
         /\ IF t.row.id = NoRow
            THEN /\ tasks' = [tasks EXCEPT ![i] = Send([t EXCEPT !.pc = "cv_end"], "expired", ok)]
                 /\ db' = db
            ELSE IF IsPastEnd(now, t.row.activation_end)
            THEN /\ tasks' = [tasks EXCEPT ![i] = [t EXCEPT !.pc = "cv_marked"]]
                 /\ db' = IF ok THEN MarkExpired(t.row.id, NumToString(t.bot)) ELSE db
            ELSE /\ tasks' = [tasks EXCEPT ![i] =
                        [t EXCEPT !.pc = "cv_handle",
                                  !.found = IF ok THEN QueryActiveSingle(NumToString(t.chat), NumToString(t.bot))
                                            ELSE NoRow]]
                 /\ db' = db
    /\ UNCHANGED <<now, ticks, nEvents, bots, botStartTime, activationStates,
                   pendingActivations, activationMessages, timers, nextMsgId,
                   redemptions, hookCalls, expiryNotices, manager, passedAdmin>>

\* After the guarded update: the expired notice
CvMarked(i) ==
    /\ At(i, "txt", "cv_marked")
    /\ \E ok \in Outcomes :
         /\ nFail' = Failed(ok)
         /\ tasks' = [tasks EXCEPT ![i] = Send([tasks[i] EXCEPT !.pc = "cv_end"], "expired", ok)]
    /\ UNCHANGED <<now, ticks, nEvents, db, bots, botStartTime, activationStates,
                   pendingActivations, activationMessages, timers, nextMsgId,
                   redemptions, hookCalls, expiryNotices, manager, passedAdmin>>

\* handleMessage after its query: nothing found, or the generated answer
CvHandle(i) ==
    /\ At(i, "txt", "cv_handle")
    /\ LET t == tasks[i] IN
       IF t.found = NoRow
       THEN tasks' = [tasks EXCEPT ![i] = Idle] /\ nFail' = nFail
       ELSE \E ok \in Outcomes :
              /\ nFail' = Failed(ok)
              /\ tasks' = [tasks EXCEPT ![i] = Send([t EXCEPT !.pc = "cv_end"], "answer", ok)]
    /\ UNCHANGED <<now, ticks, nEvents, db, bots, botStartTime, activationStates,
                   pendingActivations, activationMessages, timers, nextMsgId,
                   redemptions, hookCalls, expiryNotices, manager, passedAdmin>>

\* After the last reply of the conversational handler
CvEnd(i) ==
    /\ At(i, "txt", "cv_end")
    /\ tasks' = [tasks EXCEPT ![i] = Idle]
    /\ UNCHANGED <<now, ticks, nEvents, nFail, db, bots, botStartTime, activationStates,
                   pendingActivations, activationMessages, timers, nextMsgId,
                   redemptions, hookCalls, expiryNotices, manager, passedAdmin>>

\* ------------------------------------- ActivationService.verifyCode
\* A call of verifyCode(code, chatId, userId): the lookup of the code
VerifyCode(i, code) ==
    /\ FreeSlot(i) /\ nEvents > 0
    /\ nEvents' = nEvents - 1
    /\ \E ok \in Outcomes :
         /\ nFail' = Failed(ok)
         /\ tasks' = [tasks EXCEPT ![i] =
               [NewTask("svc", 0, GroupChat, 0, 0, code, 0)
                   EXCEPT !.pc = "vc_lookup",
                          !.row = IF ok THEN QueryByCode(code) ELSE NoData]]
    /\ UNCHANGED <<now, ticks, db, bots, botStartTime, activationStates, pendingActivations,
                   activationMessages, timers, nextMsgId, redemptions, hookCalls, expiryNotices, manager,
                   passedAdmin>>

\* After the lookup: false for an unknown, used or non-pending code, else the
\* content-generation hook is called
VcLookup(i) ==
    /\ At(i, "svc", "vc_lookup")
    /\ LET t == tasks[i] IN
       IF \/ t.row.id = NoRow
          \/ t.row.verification_used_at # NullNum
          \/ t.row.activation_status # "pending"
       THEN /\ tasks' = [tasks EXCEPT ![i] = Idle]
            /\ UNCHANGED <<nFail, hookCalls, expiryNotices, manager>>
       ELSE \E ok \in Outcomes :
              /\ nFail' = Failed(ok)
              /\ tasks' = [tasks EXCEPT ![i] = AfterHook(t, "vc_hooked", ok)]
              /\ hookCalls' = [hookCalls EXCEPT ![t.row.id] = @ + 1]
    /\ UNCHANGED <<now, ticks, nEvents, db, bots, botStartTime, activationStates,
                   pendingActivations, activationMessages, timers, nextMsgId, redemptions,
                   expiryNotices, manager, passedAdmin>>

\* After the hook: its throw is caught by the method's only catch, which returns
\* false; else the update that activates the row
VcHooked(i) ==
    /\ At(i, "svc", "vc_hooked")
    /\ LET t == tasks[i]
           id == t.row.id
       IN
       IF t.hook = "failed"
       THEN /\ tasks' = [tasks EXCEPT ![i] = Idle]
            /\ UNCHANGED <<nFail, db, redemptions>>
       ELSE \E ok \in Outcomes :
              /\ nFail' = Failed(ok)
              /\ tasks' = [tasks EXCEPT ![i] = [t EXCEPT !.pc = "vc_updated", !.ok = ok]]
              /\ db' = IF ok
                       THEN [db EXCEPT ![id].verification_used_at = now,
                                       ![id].activation_status = "active"]
                       ELSE db
              /\ redemptions' = IF ok THEN [redemptions EXCEPT ![id] = @ + 1] ELSE redemptions
    /\ UNCHANGED <<now, ticks, nEvents, bots, botStartTime, activationStates,
                   pendingActivations, activationMessages, timers, nextMsgId, hookCalls, expiryNotices, manager,
                   passedAdmin>>

\* After the update: the method returns true, or false on an update error
VcUpdated(i) ==
    /\ At(i, "svc", "vc_updated")
    /\ tasks' = [tasks EXCEPT ![i] = Idle]
    /\ UNCHANGED <<now, ticks, nEvents, nFail, db, bots, botStartTime, activationStates,
                   pendingActivations, activationMessages, timers, nextMsgId,
                   redemptions, hookCalls, expiryNotices, manager, passedAdmin>>

\* ------------------------------- ConversationService.removeActiveGroup
\* The update removeActiveGroup sends: every active row of the group gets the
\* reason as its status, and the clock as its end when the reason is expired
removeActiveGroup(groupId, reason) ==
    [a \in ActIds |->
       IF db[a].telegram_group_id = groupId /\ db[a].activation_status = "active"
       THEN [db[a] EXCEPT !.activation_status = reason,
                          !.activation_end = IF reason = "expired" THEN now ELSE @]
       ELSE db[a]]

\* A call of removeActiveGroup(groupId, reason) made to deactivate bot b in chat c
\* (the method is given the group and the reason only)
RemoveActiveGroup(i, b, c, reason) ==
    /\ FreeSlot(i) /\ nEvents > 0
    /\ nEvents' = nEvents - 1
    /\ \E ok \in Outcomes :
         /\ nFail' = Failed(ok)
         /\ tasks' = [tasks EXCEPT ![i] =
               [NewTask("svc", b, c, 0, 0, <<>>, 0) EXCEPT !.pc = "rm_updated", !.ok = ok]]
         /\ db' = IF ok THEN removeActiveGroup(NumToString(c), reason) ELSE db
    /\ UNCHANGED <<now, ticks, bots, botStartTime, activationStates, pendingActivations,
                   activationMessages, timers, nextMsgId, redemptions, hookCalls,
                   expiryNotices, manager, passedAdmin>>

\* After the update: the method returns, or logs and rethrows the error
RmUpdated(i) ==
    /\ At(i, "svc", "rm_updated")
    /\ tasks' = [tasks EXCEPT ![i] = Idle]
    /\ UNCHANGED <<now, ticks, nEvents, nFail, db, bots, botStartTime, activationStates,
                   pendingActivations, activationMessages, timers, nextMsgId,
                   redemptions, hookCalls, expiryNotices, manager, passedAdmin>>

\* ------------------------------------------------------ BotManagerService
\* The change stream delivers the INSERT of a row of table bots: with a token,
\* initializeBot registers the instance, sets up its handlers and calls launch.
\* A notification is handled while the process waits for an external call: in
\* service, or during the removeChannel call of cleanup() (Telegraf's stop returns
\* without waiting, so none is handled inside the loop of stopAllBots)
BotInserted(b, hasToken) ==
    /\ manager.channel /\ manager.pc \in {"serving", "removing"}
    /\ b \notin manager.rows
    /\ IF hasToken
       THEN /\ bots' = bots \cup {b}
            /\ botStartTime' = [botStartTime EXCEPT ![b] = now]
            /\ manager' = [manager EXCEPT !.rows = @ \cup {b}, !.order = Append(@, b),
                                          !.launching = @ \cup {b}]
       ELSE /\ manager' = [manager EXCEPT !.rows = @ \cup {b}]
            /\ UNCHANGED <<bots, botStartTime>>
    /\ UNCHANGED <<now, ticks, nEvents, nFail, db, activationStates, pendingActivations,
                   activationMessages, timers, nextMsgId, tasks, redemptions, hookCalls,
                   expiryNotices, passedAdmin>>

\* bot.launch() of initializeBot has started the instance, or has thrown (the
\* method returns false and leaves the instance in the registry)
BotLaunched(b) ==
    /\ b \in manager.launching /\ manager.pc # "stopping"
    /\ \E ok \in Outcomes :
         /\ nFail' = Failed(ok)
         /\ manager' = [manager EXCEPT !.launching = @ \ {b},
                                       !.running = IF ok THEN @ \cup {b} ELSE @]
    /\ UNCHANGED <<now, ticks, nEvents, db, bots, botStartTime, activationStates,
                   pendingActivations, activationMessages, timers, nextMsgId, tasks,
                   redemptions, hookCalls, expiryNotices, passedAdmin>>

\* stopAllBots when its loop finds no further entry: bots.clear(), then cleanup()
\* calls removeChannel
AfterLoop(m) == [m EXCEPT !.order = <<>>, !.at = 0, !.pc = "removing"]

\* cleanup() is called: stopAllBots calls stop on the first entry of the registry
Cleanup ==
    /\ manager.pc = "serving"
    /\ IF manager.order = <<>>
       THEN manager' = AfterLoop(manager) /\ bots' = {}
       ELSE manager' = [manager EXCEPT !.pc = "stopping", !.at = 1] /\ bots' = bots
    /\ UNCHANGED <<now, ticks, nEvents, nFail, db, botStartTime, activationStates,
                   pendingActivations, activationMessages, timers, nextMsgId, tasks,
                   redemptions, hookCalls, expiryNotices, passedAdmin>>

\* bot.stop of the current entry has returned or thrown (the error is logged; an
\* instance that is not running yet is not stopped); the loop goes on to the next
\* entry of the Map, entries added meanwhile included
StopReturned ==
    /\ manager.pc = "stopping"
    /\ LET b == manager.order[manager.at] IN
       \E ok \in Outcomes :
         /\ nFail' = Failed(ok)
         /\ LET m == [manager EXCEPT !.running = IF ok THEN @ \ {b} ELSE @] IN
            IF manager.at < Len(manager.order)
            THEN manager' = [m EXCEPT !.at = @ + 1] /\ bots' = bots
            ELSE manager' = AfterLoop(m) /\ bots' = {}
    /\ UNCHANGED <<now, ticks, nEvents, db, botStartTime, activationStates,
                   pendingActivations, activationMessages, timers, nextMsgId, tasks,
                   redemptions, hookCalls, expiryNotices, passedAdmin>>

\* removeChannel has returned (realtimeChannel = null, cleanup() is complete) or
\* has thrown (cleanup() rejects)
ChannelRemoved ==
    /\ manager.pc = "removing"
    /\ \E ok \in Outcomes :
         /\ nFail' = Failed(ok)
         /\ manager' = [manager EXCEPT !.channel = ~ok,
                                       !.pc = IF ok THEN "done" ELSE "failed"]
    /\ UNCHANGED <<now, ticks, nEvents, db, bots, botStartTime, activationStates,
                   pendingActivations, activationMessages, timers, nextMsgId, tasks,
                   redemptions, hookCalls, expiryNotices, passedAdmin>>

\* initializeBot(botId, token): `this.bots.set(botId, bot)` puts a new Telegraf
\* instance in the registry (an existing key keeps its place in the Map and loses
\* its instance, which nothing stops) and launch is called on the new instance
InitializeBot(m, b) ==
    [m EXCEPT !.order = IF \E k \in 1..Len(m.order) : m.order[k] = b THEN @ ELSE Append(@, b),
              !.launching = @ \cup {b},
              !.running = @ \ {b},
              !.orphans = @ \cup (IF b \in m.launching THEN {[id |-> b, st |-> "launching"]}
                                  ELSE IF b \in m.running THEN {[id |-> b, st |-> "running"]}
                                  ELSE {})]

\* addNewBot(token) is called: the token is validated with getMe
AddNewBot ==
    /\ manager.pc = "serving" /\ manager.adding = {}
    /\ \E ok \in Outcomes :
         /\ nFail' = Failed(ok)
         /\ manager' = [manager EXCEPT !.adding = {[id |-> 0, pc |-> "validating", ok |-> ok]}]
    /\ UNCHANGED <<bots, botStartTime>>
    /\ UNCHANGED <<now, ticks, nEvents, db, activationStates, pendingActivations,
                   activationMessages, timers, nextMsgId, tasks, redemptions, hookCalls,
                   expiryNotices, passedAdmin>>

\* getMe has returned: on an error the method returns null, else the row is
\* inserted in table bots (the store assigns identity b and, while the change
\* stream is subscribed, notifies the INSERT)
AddValidated(b) ==
    /\ b \notin manager.rows
    /\ \E r \in manager.adding :
         /\ r.pc = "validating"
         /\ IF ~r.ok
            THEN manager' = [manager EXCEPT !.adding = {}] /\ nFail' = nFail
            ELSE \E ok \in Outcomes :
                   /\ nFail' = Failed(ok)
                   /\ manager' =
                        [manager EXCEPT
                           !.adding = {[id |-> b, pc |-> "inserting", ok |-> ok]},
                           !.rows = IF ok THEN @ \cup {b} ELSE @,
                           !.notify = IF ok /\ manager.channel THEN @ \cup {b} ELSE @]
    /\ UNCHANGED <<bots, botStartTime>>
    /\ UNCHANGED <<now, ticks, nEvents, db, activationStates, pendingActivations,
                   activationMessages, timers, nextMsgId, tasks, redemptions, hookCalls,
                   expiryNotices, passedAdmin>>

\* The insert has returned: on an error the method returns null, else
\* initializeBot(data.id, token)
AddInserted ==
    /\ \E r \in manager.adding :
         /\ r.pc = "inserting"
         /\ IF ~r.ok
            THEN manager' = [manager EXCEPT !.adding = {}] /\ UNCHANGED <<bots, botStartTime>>
            ELSE /\ manager' = InitializeBot([manager EXCEPT !.adding = {}], r.id)
                 /\ bots' = bots \cup {r.id}
                 /\ botStartTime' = [botStartTime EXCEPT ![r.id] = now]
    /\ UNCHANGED <<now, ticks, nEvents, nFail, db, activationStates, pendingActivations,
                   activationMessages, timers, nextMsgId, tasks, redemptions, hookCalls,
                   expiryNotices, passedAdmin>>

\* The change stream delivers the INSERT that addNewBot made (the row has a
\* token): initializeBot(newBot.id, newBot.token_id)
InsertNotified(b) ==
    /\ b \in manager.notify
    /\ manager.channel /\ manager.pc \in {"serving", "removing"}
    /\ manager' = InitializeBot([manager EXCEPT !.notify = @ \ {b}], b)
    /\ bots' = bots \cup {b}
    /\ botStartTime' = [botStartTime EXCEPT ![b] = now]
    /\ UNCHANGED <<now, ticks, nEvents, nFail, db, activationStates, pendingActivations,
                   activationMessages, timers, nextMsgId, tasks, redemptions, hookCalls,
                   expiryNotices, passedAdmin>>

\* bot.launch() of an instance that is no longer in the registry has started the
\* instance, or has thrown
OrphanLaunched(o) ==
    /\ o \in manager.orphans /\ o.st = "launching"
    /\ \E ok \in Outcomes :
         /\ nFail' = Failed(ok)
         /\ manager' = [manager EXCEPT
                          !.orphans = (@ \ {o}) \cup (IF ok THEN {[o EXCEPT !.st = "running"]} ELSE {})]
    /\ UNCHANGED <<bots, botStartTime>>
    /\ UNCHANGED <<now, ticks, nEvents, db, activationStates, pendingActivations,
                   activationMessages, timers, nextMsgId, tasks, redemptions, hookCalls,
                   expiryNotices, passedAdmin>>

\* ----------------------------------------------------------------- time
\* A clock whose advance also sweeps the store: every active row past its end is
\* marked expired in the background
TickSweeping(d) ==
    /\ ticks > 0
    /\ ticks' = ticks - 1
    /\ now' = now + d
    /\ db' = [a \in ActIds |->
                IF db[a].activation_status = "active" /\ IsPastEnd(now + d, db[a].activation_end)
                THEN [db[a] EXCEPT !.activation_status = "expired"]
                ELSE db[a]]
    /\ UNCHANGED <<nEvents, nFail, bots, botStartTime, activationStates,
                   pendingActivations, activationMessages, timers, nextMsgId, tasks,
                   redemptions, hookCalls, expiryNotices, manager, passedAdmin>>

Tick(d) ==
    /\ ticks > 0
    /\ ticks' = ticks - 1
    /\ now' = now + d
    /\ UNCHANGED <<nEvents, nFail, db, bots, botStartTime, activationStates,
                   pendingActivations, activationMessages, timers, nextMsgId, tasks,
                   redemptions, hookCalls, expiryNotices, manager, passedAdmin>>

\* ------------------------------------------------------- specifications
\* message.date of an event sent now, and of one sent before the instance started
DateNow == now \div SECOND_MS
DateStale(b) == botStartTime[b] \div SECOND_MS - 1

SelSteps(i) ==
    \/ SelState(i) \/ SelDeleting(i) \/ SelReplied(i) \/ SelAck(i) \/ SelDone(i)

TxtSteps(i) ==
    \/ TxtState(i) \/ TxtLookup(i) \/ TxtReject(i) \/ TxtUpdated(i)
    \/ TxtHooked(i) \/ TxtAdded(i) \/ TxtSuccess(i)

CvSteps(i) ==
    \/ CvActive(i) \/ CvExpiry(i) \/ CvMarked(i) \/ CvHandle(i) \/ CvEnd(i)

\* Redemption: selections and code submissions of three users in the group, with
\* overlapping handlers and failing external calls
Init ==
    /\ nEvents = MaxEvents
    /\ nFail = MaxFailures
    /\ ticks = 0
    /\ \E row2 \in Row2Variants : InitWith(row2)

Next ==
    \/ \E i \in Slots, b \in BotIds, u \in UserIds :
          SelectBot(i, b, GroupChat, u, <<12>>, DateNow)
    \/ \E i \in Slots, b \in BotIds, u \in UserIds, x \in {CodeX, <<" ">> \o CodeY, <<"z">>} :
          TextMessage(i, b, GroupChat, u, x, DateNow)
    \/ \E i \in Slots : SelSteps(i) \/ SelCatch(i)
    \/ \E i \in Slots : TxtSteps(i) \/ TxtInner(i) \/ TxtOuter(i)

Spec == Init /\ [][Next]_vars

\* Row 2 waiting for bot 12
PendingRow2 == NewRow(2, CodeY, <<"@", "A">>, NumToString(12), NullNum)

\* Outage: one user selects and submits a code while external calls fail
InitFail ==
    /\ nEvents = MaxPairEvents
    /\ nFail = MaxOutage
    /\ ticks = 0
    /\ InitWith(PendingRow2)

NextFail ==
    \/ \E i \in Slots : SelectBot(i, 12, GroupChat, 1, <<12>>, DateNow)
    \/ \E i \in Slots, x \in {CodeX, <<"z">>} :
          TextMessage(i, 12, GroupChat, 1, x, DateNow)
    \/ \E i \in Slots : SelState(i) \/ SelReplied(i) \/ SelAck(i) \/ SelCatch(i)
    \/ \E i \in Slots : TxtSteps(i) \/ TxtInner(i) \/ TxtOuter(i)

SpecFail == InitFail /\ [][NextFail]_vars

\* Selection: /activation commands of user 1 and selections of two users in the
\* group, the two timers, and a clock that advances by the lifetime of a selection;
\* no external call fails
InitSelect ==
    /\ nEvents = MaxEvents
    /\ nFail = 0
    /\ ticks = MaxTicks
    /\ InitWith(PendingRow2)

NextSelect ==
    \/ \E i \in Slots : ActivationCommand(i, 12, GroupChat, 1, DateNow)
    \/ \E i \in Slots, u \in {1, 2} :
          SelectBot(i, 12, GroupChat, u, <<12>>, DateNow)
    \/ \E i \in Slots :
          CmdState(i) \/ CmdRoles(i) \/ CmdReject(i) \/ CmdPosted(i) \/ CmdEnd(i)
    \/ \E i \in Slots : SelState(i) \/ SelDeleting(i) \/ SelReplied(i) \/ SelAck(i)
    \/ \E tm \in timers : MessageTimer(tm)
    \/ \E tm \in timers : PendingTimer(tm)
    \/ Tick(PENDING_TTL_MS)

SpecSelect == InitSelect /\ [][NextSelect]_vars

\* Time: user 1 selects and submits codes, user 2 mentions the bot, and the clock
\* advances by a millisecond between the steps; no external call fails
InitTime ==
    /\ nEvents = MaxTimedEvents
    /\ nFail = 0
    /\ ticks = MaxTicks
    /\ InitWith(PendingRow2)

NextTime ==
    \/ \E i \in Slots : SelectBot(i, 12, GroupChat, 1, <<12>>, DateNow)
    \/ \E i \in Slots, x \in {CodeX, <<" ">> \o CodeY} :
          TextMessage(i, 12, GroupChat, 1, x, DateNow)
    \/ \E i \in Slots : TextMessage(i, 12, GroupChat, 2, <<BotMention>>, DateNow)
    \/ \E i \in Slots : SelSteps(i)
    \/ \E i \in Slots : TxtSteps(i)
    \/ \E i \in Slots : CvSteps(i)
    \/ Tick(1)

SpecTime == InitTime /\ [][NextTime]_vars

\* Service: ActivationService.verifyCode called for known and unknown codes while a
\* user redeems a code in the group, with failing external calls
InitService ==
    /\ nEvents = MaxEvents
    /\ nFail = MaxFailures
    /\ ticks = 0
    /\ InitWith(PendingRow2)

NextService ==
    \/ \E i \in Slots, x \in {CodeX, CodeY, <<"z">>} : VerifyCode(i, x)
    \/ \E i \in Slots : VcLookup(i) \/ VcHooked(i) \/ VcUpdated(i)
    \/ \E i \in Slots : SelectBot(i, 12, GroupChat, 1, <<12>>, DateNow)
    \/ \E i \in Slots : TextMessage(i, 12, GroupChat, 1, CodeX, DateNow)
    \/ \E i \in Slots : SelState(i) \/ SelReplied(i) \/ SelAck(i) \/ SelCatch(i)
    \/ \E i \in Slots : TxtSteps(i) \/ TxtInner(i) \/ TxtOuter(i)

SpecService == InitService /\ [][NextService]_vars

\* Expiry: user 1 redeems the code of row 1 (three hours), user 2 mentions the bot,
\* and the clock advances by a millisecond or by three hours; no external call fails
InitExpiry ==
    /\ nEvents = MaxEvents
    /\ nFail = 0
    /\ ticks = MaxTicks
    /\ InitWith(PendingRow2)

NextExpiry ==
    \/ \E i \in Slots : SelectBot(i, 12, GroupChat, 1, <<12>>, DateNow)
    \/ \E i \in Slots : TextMessage(i, 12, GroupChat, 1, CodeX, DateNow)
    \/ \E i \in Slots : TextMessage(i, 12, GroupChat, 2, <<BotMention>>, DateNow)
    \/ \E i \in Slots : SelState(i) \/ SelReplied(i) \/ SelAck(i)
    \/ \E i \in Slots :
          \/ TxtState(i) \/ TxtLookup(i) \/ TxtUpdated(i) \/ TxtHooked(i)
          \/ TxtAdded(i) \/ TxtSuccess(i)
    \/ \E i \in Slots : CvSteps(i)
    \/ \E d \in {1, 3 * HOUR_MS} : Tick(d)

SpecExpiry == InitExpiry /\ [][NextExpiry]_vars

\* Rate limit: /activation commands of user 1 in the group, each delivered when the
\* one before it has been handled, and a clock that advances by the cooldown; no
\* external call fails
InitRate ==
    /\ nEvents = MaxRateEvents
    /\ nFail = 0
    /\ ticks = MaxTicks
    /\ InitWith(PendingRow2)

NextRate ==
    \/ \E i \in Slots : /\ \A j \in Slots : tasks[j].kind = "idle"
                        /\ ActivationCommand(i, 12, GroupChat, 1, DateNow)
    \/ \E i \in Slots :
          CmdState(i) \/ CmdRoles(i) \/ CmdReject(i) \/ CmdPosted(i) \/ CmdEnd(i)
    \/ Tick(COOLDOWN_MS)

SpecRate == InitRate /\ [][NextRate]_vars

\* Rate limit inside one window: the same commands with a clock that advances by
\* one second between them
NextWindow ==
    \/ \E i \in Slots : /\ \A j \in Slots : tasks[j].kind = "idle"
                        /\ ActivationCommand(i, 12, GroupChat, 1, DateNow)
    \/ \E i \in Slots :
          CmdState(i) \/ CmdRoles(i) \/ CmdReject(i) \/ CmdPosted(i) \/ CmdEnd(i)
    \/ Tick(SECOND_MS)

SpecWindow == InitRate /\ [][NextWindow]_vars

\* Rate limit across windows: the same commands with a clock that advances by one
\* window or by the cooldown between them
NextCooldown ==
    \/ \E i \in Slots : /\ \A j \in Slots : tasks[j].kind = "idle"
                        /\ ActivationCommand(i, 12, GroupChat, 1, DateNow)
    \/ \E i \in Slots :
          CmdState(i) \/ CmdRoles(i) \/ CmdReject(i) \/ CmdPosted(i) \/ CmdEnd(i)
    \/ Tick(WINDOW_MS)
    \/ Tick(COOLDOWN_MS)

SpecCooldown == InitRate /\ [][NextCooldown]_vars

\* Two tenants: bots 1 and 12 run in the same group, row 2 was redeemed there for
\* bot 1 and row 1 waits for bot 12; user 1 runs the activation flow and writes to
\* either bot, either bot is deactivated, and the clock advances past the end of
\* an activation; the events are handled one after the other and no call fails
InitTenant ==
    /\ nEvents = MaxEvents
    /\ nFail = 0
    /\ ticks = MaxTicks
    /\ InitCounters
    /\ InitMemory
    /\ bots = {1, 12}
    /\ manager = [StartedManager EXCEPT !.rows = {1, 12}, !.order = <<12, 1>>,
                                        !.running = {1, 12}]
    /\ botStartTime = [b \in BotIds |-> HOUR_MS]
    /\ db = [a \in ActIds |->
               IF a = 1 THEN NewRow(1, CodeX, <<"@", "a">>, NumToString(12), 3)
               ELSE [NewRow(2, CodeY, <<"@", "A">>, NumToString(1), 3)
                       EXCEPT !.activation_status = "active", !.verification_used_at = 0,
                              !.activation_start = 0, !.activation_end = 3 * HOUR_MS,
                              !.telegram_group_id = NumToString(GroupChat)]]

NextTenant ==
    \/ \E i \in Slots, b \in BotIds :
          /\ \A j \in Slots : tasks[j].kind = "idle"
          /\ ActivationCommand(i, b, GroupChat, 1, DateNow)
    \/ \E i \in Slots, b \in BotIds :
          /\ \A j \in Slots : tasks[j].kind = "idle"
          /\ SelectBot(i, b, GroupChat, 1, <<b>>, DateNow)
    \/ \E i \in Slots, b \in BotIds, x \in {CodeX, <<BotMention>>} :
          /\ \A j \in Slots : tasks[j].kind = "idle"
          /\ TextMessage(i, b, GroupChat, 1, x, DateNow)
    \/ \E i \in Slots, b \in BotIds, reason \in {"expired", "stopped"} :
          /\ \A j \in Slots : tasks[j].kind = "idle"
          /\ RemoveActiveGroup(i, b, GroupChat, reason)
    \/ \E i \in Slots : RmUpdated(i)
    \/ \E i \in Slots :
          CmdState(i) \/ CmdRoles(i) \/ CmdReject(i) \/ CmdPosted(i) \/ CmdEnd(i)
    \/ \E i \in Slots : SelSteps(i)
    \/ \E i \in Slots : TxtSteps(i)
    \/ \E i \in Slots : CvSteps(i)
    \/ \E tm \in timers : MessageTimer(tm)
    \/ \E tm \in timers : PendingTimer(tm)
    \/ Tick(3 * HOUR_MS)

SpecTenant == InitTenant /\ [][NextTenant]_vars

\* Registration: addNewBot calls, INSERT notifications of rows added by others and
\* by addNewBot, launches, and selections in the group of the running instances;
\* one external call may fail
InitAdd ==
    /\ nEvents = MaxPairEvents
    /\ nFail = MaxFailures
    /\ ticks = 0
    /\ InitWith(PendingRow2)

NextAdd ==
    \/ AddNewBot
    \/ \E b \in BotIds : AddValidated(b)
    \/ AddInserted
    \/ \E b \in BotIds : InsertNotified(b)
    \/ \E b \in BotIds, hasToken \in BOOLEAN : BotInserted(b, hasToken)
    \/ \E b \in BotIds : BotLaunched(b)
    \/ \E o \in manager.orphans : OrphanLaunched(o)
    \/ \E i \in Slots, b \in BotIds :
          b \in manager.running /\ SelectBot(i, b, GroupChat, 1, <<b>>, DateNow)
    \/ \E i \in Slots : \/ SelState(i) \/ SelDeleting(i) \/ SelReplied(i)
                         \/ SelAck(i) \/ SelCatch(i)

SpecAdd == InitAdd /\ [][NextAdd]_vars

\* Row 2 as a run of the program before this one left it: redeemed at time 0 in the
\* group for bot 12, active for three hours
BoundRow2 ==
    [NewRow(2, CodeY, <<"@", "A">>, NumToString(12), 3)
        EXCEPT !.activation_status = "active", !.verification_used_at = 0,
               !.activation_start = 0, !.activation_end = 3 * HOUR_MS,
               !.telegram_group_id = NumToString(GroupChat)]

\* Backlog: the events of two users that were sent before the instance started are
\* delivered after its start, while the clock advances past the end of row 2; no
\* external call fails
InitStale ==
    /\ nEvents = MaxEvents
    /\ nFail = 0
    /\ ticks = MaxTicks
    /\ InitWith(BoundRow2)

NextStale ==
    \/ \E i \in Slots, u \in {1, 2} :
          ActivationCommand(i, 12, GroupChat, u, DateStale(12))
    \/ \E i \in Slots, u \in {1, 2} :
          SelectBot(i, 12, GroupChat, u, <<12>>, DateStale(12))
    \/ \E i \in Slots, u \in {1, 2}, x \in {CodeX, <<BotMention>>} :
          TextMessage(i, 12, GroupChat, u, x, DateStale(12))
    \/ \E i \in Slots : SelDone(i)
    \/ \E i \in Slots : CvSteps(i)
    \/ Tick(3 * HOUR_MS)

SpecStale == InitStale /\ [][NextStale]_vars

\* Consent: /activation commands of user 1 in the group and in a private chat,
\* in overlapping handlers, with failing external calls
InitAdmin ==
    /\ nEvents = MaxPairEvents
    /\ nFail = MaxFailures
    /\ ticks = 0
    /\ InitWith(PendingRow2)

NextAdmin ==
    \/ \E i \in Slots, c \in Chats : ActivationCommand(i, 12, c, 1, DateNow)
    \/ \E i \in Slots : CmdState(i) \/ CmdRoles(i) \/ CmdReject(i) \/ CmdPosted(i)
    \/ \E i \in Slots : CmdInnerCatch(i) \/ CmdEnd(i) \/ CmdCaught(i)

SpecAdmin == InitAdmin /\ [][NextAdmin]_vars

\* Targeting: selection callbacks for bot 12 and for another bot reach instance 12
\* while row 2 is active in the group; user 2 mentions the bot and the clock
\* advances past the end of the row; no external call fails
InitTarget ==
    /\ nEvents = MaxEvents
    /\ nFail = 0
    /\ ticks = MaxTicks
    /\ InitWith(BoundRow2)

NextTarget ==
    \/ \E i \in Slots, p \in BotIds : SelectBot(i, 12, GroupChat, 1, <<p>>, DateNow)
    \/ \E i \in Slots : TextMessage(i, 12, GroupChat, 2, <<BotMention>>, DateNow)
    \/ \E i \in Slots : SelSteps(i)
    \/ \E i \in Slots : TxtState(i)
    \/ \E i \in Slots : CvSteps(i)
    \/ Tick(3 * HOUR_MS)

SpecTarget == InitTarget /\ [][NextTarget]_vars

\* Expiry of a selection: user 1 selects bot 12 and submits the code of row 1 or an
\* unknown code, each event delivered when the one before it has been handled,
\* while the clock advances by the lifetime of a selection and the expiry timers
\* fire between the steps of the handlers; external calls may fail
InitPending ==
    /\ nEvents = MaxEvents
    /\ nFail = MaxFailures
    /\ ticks = MaxTicks
    /\ InitWith(PendingRow2)

NextPending ==
    \/ \E i \in Slots : /\ \A j \in Slots : tasks[j].kind = "idle"
                        /\ SelectBot(i, 12, GroupChat, 1, <<12>>, DateNow)
    \/ \E i \in Slots, x \in {CodeX, <<"z">>} :
          /\ \A j \in Slots : tasks[j].kind = "idle"
          /\ TextMessage(i, 12, GroupChat, 1, x, DateNow)
    \/ \E i \in Slots : SelSteps(i) \/ SelCatch(i)
    \/ \E i \in Slots : TxtSteps(i) \/ TxtInner(i) \/ TxtOuter(i)
    \/ \E tm \in timers : PendingTimer(tm)
    \/ Tick(PENDING_TTL_MS)

SpecPending == InitPending /\ [][NextPending]_vars

\* Shutdown: cleanup() is called while the change stream announces a new bot and
\* user 1 presses the keyboard of a running instance; external calls may fail
InitShutdown ==
    /\ nEvents = MaxPairEvents
    /\ nFail = MaxFailures
    /\ ticks = 0
    /\ InitWith(PendingRow2)

NextShutdown ==
    \/ \E b \in BotIds, hasToken \in BOOLEAN : BotInserted(b, hasToken)
    \/ \E b \in BotIds : BotLaunched(b)
    \/ Cleanup
    \/ StopReturned
    \/ ChannelRemoved
    \/ \E i \in Slots, b \in BotIds :
          b \in manager.running /\ SelectBot(i, b, GroupChat, 1, <<b>>, DateNow)
    \/ \E i \in Slots : \/ SelState(i) \/ SelDeleting(i) \/ SelReplied(i)
                         \/ SelAck(i) \/ SelCatch(i)

SpecShutdown == InitShutdown /\ [][NextShutdown]_vars

\* Order of the preconditions: /activation commands and selections of user 1 in
\* the group, each delivered when the one before it has been handled, with row 2
\* waiting or already active for the instance and a clock that advances by seconds;
\* no external call fails
InitOrder ==
    /\ nEvents = MaxRateEvents
    /\ nFail = 0
    /\ ticks = MaxTicks
    /\ \E row2 \in {PendingRow2, BoundRow2} : InitWith(row2)

NextOrder ==
    \/ \E i \in Slots : /\ \A j \in Slots : tasks[j].kind = "idle"
                        /\ ActivationCommand(i, 12, GroupChat, 1, DateNow)
    \/ \E i \in Slots : /\ \A j \in Slots : tasks[j].kind = "idle"
                        /\ SelectBot(i, 12, GroupChat, 1, <<12>>, DateNow)
    \/ \E i \in Slots :
          CmdState(i) \/ CmdRoles(i) \/ CmdReject(i) \/ CmdPosted(i) \/ CmdEnd(i)
    \/ \E i \in Slots : SelSteps(i)
    \/ Tick(SECOND_MS)

SpecOrder == InitOrder /\ [][NextOrder]_vars

\* Another member writes: user 1 selects bot 12, users 1 and 2 send the code of
\* row 1 or a mention of the bot, each event delivered when the one before it has
\* been handled, while the clock advances by three hours; external calls may fail
InitOther ==
    /\ nEvents = MaxEvents
    /\ nFail = MaxFailures
    /\ ticks = MaxTicks
    /\ InitWith(PendingRow2)

NextOther ==
    \/ \E i \in Slots : /\ \A j \in Slots : tasks[j].kind = "idle"
                        /\ SelectBot(i, 12, GroupChat, 1, <<12>>, DateNow)
    \/ \E i \in Slots, u \in {1, 2}, x \in {CodeX, <<BotMention>>} :
          /\ \A j \in Slots : tasks[j].kind = "idle"
          /\ TextMessage(i, 12, GroupChat, u, x, DateNow)
    \/ \E i \in Slots : SelSteps(i) \/ SelCatch(i)
    \/ \E i \in Slots : TxtSteps(i) \/ TxtInner(i) \/ TxtOuter(i)
    \/ \E i \in Slots : CvSteps(i)
    \/ Tick(3 * HOUR_MS)

SpecOther == InitOther /\ [][NextOther]_vars

\* Row 2 as the web application leaves it before a bot is chosen: no selected bot
UnselectedRow2 == NewRow(2, CodeY, <<"@", "A">>, NullStr, NullNum)

\* A code without a bot: user 1 selects bot 12 and submits the code of row 1 or of
\* row 2, each event delivered when the one before it has been handled;
\* external calls may fail
InitUnselected ==
    /\ nEvents = MaxEvents
    /\ nFail = MaxFailures
    /\ ticks = 0
    /\ InitWith(UnselectedRow2)

NextUnselected ==
    \/ \E i \in Slots : /\ \A j \in Slots : tasks[j].kind = "idle"
                        /\ SelectBot(i, 12, GroupChat, 1, <<12>>, DateNow)
    \/ \E i \in Slots, x \in {CodeX, CodeY} :
          /\ \A j \in Slots : tasks[j].kind = "idle"
          /\ TextMessage(i, 12, GroupChat, 1, x, DateNow)
    \/ \E i \in Slots : SelSteps(i) \/ SelCatch(i)
    \/ \E i \in Slots : TxtSteps(i) \/ TxtInner(i) \/ TxtOuter(i)

SpecUnselected == InitUnselected /\ [][NextUnselected]_vars

\* Lifetime of a selection under fair scheduling: the events of SpecPending during an
\* outage of the transport; a handler that can take a step takes it, a timer that
\* is due fires, and the clock reaches the due time of every scheduled timer
InitLive ==
    /\ nEvents = MaxEvents
    /\ nFail = MaxOutage
    /\ ticks = MaxEvents
    /\ InitWith(PendingRow2)

HandlerStep ==
    \E i \in Slots : \/ SelSteps(i) \/ SelCatch(i)
                     \/ TxtSteps(i) \/ TxtInner(i) \/ TxtOuter(i)

TimerStep == \E tm \in timers : PendingTimer(tm)

ClockStep == (\E tm \in timers : now < tm.at) /\ Tick(PENDING_TTL_MS)

NextLive ==
    \/ \E i \in Slots : /\ \A j \in Slots : tasks[j].kind = "idle"
                        /\ SelectBot(i, 12, GroupChat, 1, <<12>>, DateNow)
    \/ \E i \in Slots, x \in {CodeX, <<"z">>} :
          /\ \A j \in Slots : tasks[j].kind = "idle"
          /\ TextMessage(i, 12, GroupChat, 1, x, DateNow)
    \/ HandlerStep
    \/ TimerStep
    \/ ClockStep

SpecLive ==
    /\ InitLive /\ [][NextLive]_vars
    /\ WF_vars(HandlerStep) /\ WF_vars(TimerStep) /\ WF_vars(ClockStep)

\* Lazy expiry: /activation commands and selections of user 1, codes and mentions
\* of users 1 and 2 in the group, each event delivered when the one before it has
\* been handled, with row 2 waiting or already active; the clock advances by three
\* hours and the timers fire; no external call fails
InitLazy ==
    /\ nEvents = MaxEvents
    /\ nFail = 0
    /\ ticks = MaxTicks
    /\ \E row2 \in {PendingRow2, BoundRow2} : InitWith(row2)

NextLazy ==
    \/ \E i \in Slots : /\ \A j \in Slots : tasks[j].kind = "idle"
                        /\ ActivationCommand(i, 12, GroupChat, 1, DateNow)
    \/ \E i \in Slots : /\ \A j \in Slots : tasks[j].kind = "idle"
                        /\ SelectBot(i, 12, GroupChat, 1, <<12>>, DateNow)
    \/ \E i \in Slots, u \in {1, 2}, x \in {CodeX, <<BotMention>>} :
          /\ \A j \in Slots : tasks[j].kind = "idle"
          /\ TextMessage(i, 12, GroupChat, u, x, DateNow)
    \/ \E i \in Slots :
          CmdState(i) \/ CmdRoles(i) \/ CmdReject(i) \/ CmdPosted(i) \/ CmdEnd(i)
    \/ \E i \in Slots : SelSteps(i)
    \/ \E i \in Slots : TxtSteps(i)
    \/ \E i \in Slots : CvSteps(i)
    \/ \E tm \in timers : MessageTimer(tm)
    \/ \E tm \in timers : PendingTimer(tm)
    \/ Tick(3 * HOUR_MS)

SpecLazy == InitLazy /\ [][NextLazy]_vars

\* Dispatch of callbacks: user 1 presses buttons of the keyboard of /activation
\* (select_bot:12) and of the keyboard of /activate (select_bot:<activation>:12) in
\* the group, in overlapping handlers; no external call fails
InitDispatch ==
    /\ nEvents = MaxEvents
    /\ nFail = 0
    /\ ticks = 0
    /\ InitWith(PendingRow2)

NextDispatch ==
    \/ \E i \in Slots, p \in {<<12>>} \cup {<<a, 12>> : a \in ActIds} :
          SelectBot(i, 12, GroupChat, 1, p, DateNow)
    \/ \E i \in Slots : SelState(i) \/ SelDeleting(i) \/ SelReplied(i) \/ SelAck(i)

SpecDispatch == InitDispatch /\ [][NextDispatch]_vars

\* ---------------------------------------------------------------- claims
\* The steps of bot.on('text') of the activation module that follow the lookup
AfterLookup == {"txt_reject", "txt_updated", "txt_hooked", "txt_added", "txt_success",
                "txt_inner", "txt_outer"}

TxtPcs == {"txt_state", "txt_lookup"} \cup AfterLookup

\* The slot whose handler takes the step
Acts(i) == tasks'[i] # tasks[i]

\* ActivationService.verifyActivationCode: the two sides of its comparison
NormalizeProvided(name) ==
    ToLowerCase(Trim(IF StartsWith(name, <<"@">>) THEN name ELSE <<"@">> \o name))

NormalizeAuthorized(user) == IF user = NullStr THEN <<>> ELSE ToLowerCase(Trim(user))

\* The presenting principal is not the authorized principal of the row
PrincipalDiffers(u, row) ==
    \/ Username(u) = NullStr
    \/ NormalizeProvided(Username(u)) # NormalizeAuthorized(row.telegram_authorized_user)

\* C1: of the requests that target one (bot, group), at most one records its
\* PendingAttempt; no step of another request records an attempt in place of the
\* one that is recorded.
C1_AttemptNotReplaced ==
    [][\A b \in BotIds, c \in Chats :
         pendingActivations[b][c] # NoAttempt
         => pendingActivations'[b][c] \in {pendingActivations[b][c], NoAttempt}]_vars

\* C2: the update that takes a row from pending to active is performed at most
\* once per verification code, whatever text events arrive and however their
\* handlers overlap.
C2_RedeemedAtMostOnce == \A a \in ActIds : redemptions[a] <= 1

\* C3: at most one row is active for a (selected bot identity, group) pair.
C3_OneActivePerPair ==
    \A g \in GroupIds, b \in BotIds : Cardinality(ActiveRows(g, NumToString(b))) <= 1

\* C4: the status of a row moves only forward: it does not return to pending, and
\* an expired or stopped row keeps its status.
C4_StatusOnlyForward ==
    [][\A a \in ActIds :
         /\ db[a].activation_status # "pending" => db'[a].activation_status # "pending"
         /\ db[a].activation_status \in {"expired", "stopped"}
              => db'[a].activation_status = db[a].activation_status]_vars

\* The verdicts of the redemption checks that reject a code
Rejections == {"invalid_code", "already_used", "unauthorized", "bot_mismatch"}

\* C5: when the handler of a code that the redemption checks rejected ends, the
\* in-progress flag of the (bot, group) is false, the chat has no PendingAttempt
\* and no registry entry, and the handler's last step left the table unchanged.
C5_RejectionCleansUp ==
    [][\A i \in Slots :
         (/\ tasks[i].kind = "txt" /\ tasks[i].verdict \in Rejections
          /\ tasks'[i] = Idle)
         => LET t == tasks[i] IN
            /\ ~activationStates'[t.bot][NumToString(t.chat)].inProgress
            /\ pendingActivations'[t.bot][t.chat] = NoAttempt
            /\ activationMessages'[t.bot][t.chat] = NoMessages
            /\ db' = db]_vars

\* The positions of the catch blocks of the selection and the text handlers
CatchPcs == {"sel_catch", "txt_inner", "txt_outer"}

\* C6: when a handler ends on an error path, the in-progress flag of the
\* (bot, group) is false and the chat has no PendingAttempt.
C6_ErrorPathCleansUp ==
    [][\A i \in Slots :
         (tasks[i].pc \in CatchPcs /\ tasks'[i] = Idle)
         => /\ ~activationStates'[tasks[i].bot][NumToString(tasks[i].chat)].inProgress
            /\ pendingActivations'[tasks[i].bot][tasks[i].chat] = NoAttempt]_vars

\* C7: a code submitted by a principal whose normalized username differs from the
\* normalized authorized principal of the row (or who has no username) never passes
\* the checks: once the row is looked up the handler is on a rejection path, its
\* verdict is "unauthorized" when the row is unused and pending, and no step of the
\* handler changes status, used-timestamp or group binding of the row.
C7_Intruder(t) ==
    /\ t.kind = "txt" /\ t.pc \in AfterLookup
    /\ t.row.id # NoRow /\ PrincipalDiffers(t.from, t.row)

C7_MismatchDenied ==
    /\ [](\A i \in Slots :
            C7_Intruder(tasks[i]) =>
               /\ tasks[i].pc \in {"txt_reject", "txt_outer"}
               /\ tasks[i].verdict \in {"already_used", "unauthorized"}
               /\ (/\ tasks[i].row.verification_used_at = NullNum
                   /\ tasks[i].row.activation_status = "pending")
                     => tasks[i].verdict = "unauthorized")
    /\ [][\A i \in Slots :
            (/\ Acts(i) /\ tasks[i].kind = "txt" /\ tasks[i].pc \in TxtPcs
             /\ QueryByCode(Trim(tasks[i].text)).id # NoRow
             /\ PrincipalDiffers(tasks[i].from, QueryByCode(Trim(tasks[i].text))))
            => LET a == QueryByCode(Trim(tasks[i].text)).id IN
               /\ db'[a].activation_status = db[a].activation_status
               /\ db'[a].verification_used_at = db[a].verification_used_at
               /\ db'[a].telegram_group_id = db[a].telegram_group_id]_vars

\* C8: a row becomes active only by a step of a code submission whose handler found
\* the code unused and pending, whose principal is the authorized principal, and
\* whose bot instance is the selected bot of the row.
C8_ActiveOnlyByChecks ==
    [][\A a \in ActIds :
         (db[a].activation_status # "active" /\ db'[a].activation_status = "active")
         => \E i \in Slots :
              /\ Acts(i) /\ tasks[i].kind = "txt" /\ tasks[i].row.id = a
              /\ tasks[i].row.verification_used_at = NullNum
              /\ tasks[i].row.activation_status = "pending"
              /\ ~PrincipalDiffers(tasks[i].from, tasks[i].row)
              /\ db[a].selectedbotid = NumToString(tasks[i].bot)]_vars

\* C9: at the step that sends the verification-successful message, the row is
\* active, its used-timestamp is set, it is bound to the group of the submission,
\* and the chat has no PendingAttempt and no registry entry.
C9_SuccessMeansActive ==
    [][\A i \in Slots :
         (/\ tasks[i].pc = "txt_added" /\ tasks'[i].pc = "txt_success"
          /\ tasks'[i].reply = "success")
         => LET t == tasks[i]
                a == tasks[i].row.id
            IN
            /\ db'[a].activation_status = "active"
            /\ db'[a].verification_used_at # NullNum
            /\ db'[a].telegram_group_id = NumToString(t.chat)
            /\ pendingActivations'[t.bot][t.chat] = NoAttempt
            /\ activationMessages'[t.bot][t.chat] = NoMessages]_vars

\* C10: when a successful redemption of a row with a duration ends, the stored
\* activation_end is the stored activation_start plus the duration in hours.
C10_EndIsStartPlusDuration ==
    [][\A i \in Slots :
         (/\ tasks[i].pc = "txt_success" /\ tasks[i].reply = "success"
          /\ tasks'[i] = Idle /\ tasks[i].row.duration_hours # NullNum)
         => LET a == tasks[i].row.id IN
            db'[a].activation_end =
                db'[a].activation_start + tasks[i].row.duration_hours * HOUR_MS]_vars

\* C11: a row redeemed with a null duration is indefinite: once it is active, no
\* step marks it expired and no conversational handler reports it expired.
C11_NullDurationIndefinite ==
    [][\A a \in ActIds :
         (db[a].duration_hours = NullNum /\ db[a].activation_status = "active")
         => /\ db'[a].activation_status # "expired"
            /\ \A i \in Slots :
                 (tasks[i].pc = "cv_expiry" /\ tasks[i].row.id = a)
                   => tasks'[i].pc # "cv_marked"]_vars

\* C12: the content-generation hook is invoked exactly once for a row that becomes
\* active: never more than once, and once when the success message has gone out.
C12_HookExactlyOnce ==
    /\ \A a \in ActIds : hookCalls[a] <= 1
    /\ \A i \in Slots :
         (tasks[i].pc = "txt_success" /\ tasks[i].reply = "success")
           => hookCalls[tasks[i].row.id] = 1

\* C18: a code whose selected bot identity is not exactly the identity of the
\* responding instance does not pass the checks.
C18_ExactBotMatch ==
    \A i \in Slots :
        (/\ tasks[i].kind = "txt" /\ tasks[i].pc \in AfterLookup
         /\ tasks[i].row.id # NoRow
         /\ tasks[i].row.selectedbotid # NumToString(tasks[i].bot))
        => tasks[i].verdict # "ok"

\* C19: every write that sets a row active finds it pending, and every write that
\* sets it expired finds it active.
C19_WritesGuardedByStatus ==
    [][\A a \in ActIds :
         /\ redemptions'[a] > redemptions[a] => db[a].activation_status = "pending"
         /\ (db'[a].activation_status = "expired" /\ db[a].activation_status # "expired")
              => db[a].activation_status = "active"]_vars

\* The positions at which a redemption has the outcome of the hook in hand
HookedPcs == {"txt_hooked", "vc_hooked"}

\* C13: a failure of the content-generation hook does not affect the redemption:
\* in every redemption path the step that follows a failed hook goes on to the
\* activating write, as it does after a hook that succeeded.
C13_HookFailureIgnored ==
    [][\A i \in Slots :
         (tasks[i].pc \in HookedPcs /\ tasks[i].hook = "failed" /\ Acts(i))
         => tasks'[i].pc \in {"txt_added", "vc_updated"}]_vars

\* C14: for an active row with a duration, started at T, the expiration check
\* reports expired exactly when now > T + duration (not at now = T + duration).
C14_ExpiredOnlyPastEnd ==
    [][\A i \in Slots :
         (/\ tasks[i].pc = "cv_expiry" /\ Acts(i)
          /\ tasks[i].row.id # NoRow /\ tasks[i].row.duration_hours # NullNum)
         => LET r == tasks[i].row IN
            (tasks'[i].pc = "cv_marked")
               <=> (now > r.activation_start + r.duration_hours * HOUR_MS)]_vars

\* C15: with MAX_ATTEMPTS = 5 and a window of 60 s, the k-th /activation attempt
\* that reaches the rate limiter of a (bot, group) while every attempt so far lies
\* within one window is admitted when k <= 5 and rejected as rate-limited when
\* k > 5; an attempt that reaches the limiter 300 s or more after the last admitted
\* one is admitted and the counter restarts at 1.
C15_Reached == (MaxRateEvents - nEvents)
                  - Cardinality({j \in Slots : At(j, "cmd", "cmd_state")})

C15_RateLimit ==
    [][\A i \in Slots :
         LET t == tasks[i]
             g == NumToString(t.chat)
             st == StateAfterLookup(t.bot, g, t.found # NoRow)
             k == C15_Reached + 1
             admitted == /\ tasks'[i].pc = "cmd_roles"
                         /\ activationStates'[t.bot][g].lastAttempt = now
             rejected == /\ tasks'[i].pc = "cmd_end"
                         /\ tasks'[i].reply = "rate_limited"
         IN  (At(i, "cmd", "cmd_state") /\ Acts(i) /\ ~st.isActive /\ ~st.inProgress) =>
               /\ now - HOUR_MS < WINDOW_MS =>
                     IF k <= MAX_ATTEMPTS THEN admitted ELSE rejected
               /\ now - st.lastAttempt >= COOLDOWN_MS =>
                     admitted /\ activationStates'[t.bot][g].attempts = 1]_vars

\* Six attempts were made within one window, the clock advanced by the cooldown,
\* and the seventh attempt has been admitted with the counter back at 1
C15_Witness ==
    /\ nEvents = MaxRateEvents - (MAX_ATTEMPTS + 2)
    /\ now = HOUR_MS + COOLDOWN_MS
    /\ \E i \in Slots : At(i, "cmd", "cmd_roles")
    /\ activationStates[12][NumToString(GroupChat)].attempts = 1
    /\ activationStates[12][NumToString(GroupChat)].lastAttempt = now

\* C16: an event (command, selection, text) whose date is earlier than the start of
\* the instance is never answered (no message, no callback answer), and no step of
\* its handling, in the activation handlers or in the handler it is passed on to,
\* changes the in-memory maps or the store.
C16_IsStale(t) == t.kind # "idle" /\ t.date * SECOND_MS < botStartTime[t.bot]

C16_StaleIgnored ==
    [][\A i \in Slots :
         C16_IsStale(tasks'[i]) =>
           /\ tasks'[i].reply = NoReply
           /\ Acts(i) => /\ db' = db
                         /\ activationStates' = activationStates
                         /\ pendingActivations' = pendingActivations
                         /\ activationMessages' = activationMessages]_vars

\* C17: the redemption checks are made in a fixed order (not found, already used
\* or not pending, unauthorized, bot mismatch): for every submitted code and
\* principal the outcome of the checks, and the reply that is sent, is that of the
\* first check of this order that fails, and the row is updated only when none
\* fails.
C17_FirstFailing(row, u, b) ==
    IF row.id = NoRow THEN "invalid_code"
    ELSE IF row.verification_used_at # NullNum \/ row.activation_status # "pending"
    THEN "already_used"
    ELSE IF PrincipalDiffers(u, row) THEN "unauthorized"
    ELSE IF row.selectedbotid # NumToString(b) THEN "bot_mismatch"
    ELSE "ok"

C17_ChecksInOrder ==
    \A i \in Slots :
        (tasks[i].kind = "txt" /\ tasks[i].pc \in AfterLookup /\ tasks[i].verdict # "none")
        => /\ tasks[i].verdict = C17_FirstFailing(tasks[i].row, tasks[i].from, tasks[i].bot)
           /\ (tasks[i].pc = "txt_reject" /\ tasks[i].ok)
                 => tasks[i].reply = tasks[i].verdict
           /\ tasks[i].pc \in {"txt_updated", "txt_hooked", "txt_added", "txt_success"}
                 => tasks[i].verdict = "ok"

\* The replies of /activation to a request that fails a precondition
PreconditionReplies == {"already_activated", "in_progress", "rate_limited",
                        "need_admin", "promote_me", "lookup_failed"}

\* C20: when the handler of an /activation request that failed a precondition
\* (already activated, in progress, rate-limited, a role check, the role lookup)
\* ends, it has answered with the message of that precondition, it has posted no
\* selection keyboard, and the in-progress flag of the (bot, group) is false.
C20_PreconditionFailure ==
    [][\A i \in Slots :
         (/\ tasks[i].kind = "cmd" /\ tasks[i].reply \in PreconditionReplies
          /\ tasks'[i] = Idle)
         => LET t == tasks[i] IN
            /\ t.msg = 0
            /\ ~activationStates'[t.bot][NumToString(t.chat)].inProgress]_vars

\* C21: the selection keyboard is posted only by an /activation request whose two
\* role lookups succeeded and returned administrator or creator for the requester
\* and for the bot; a request with a failed lookup or a missing role posts no
\* keyboard and registers no message.
C21_Elevated(t) ==
    /\ t.roles[1] \in {"administrator", "creator"}
    /\ t.roles[2] \in {"administrator", "creator"}

C22_ForeignTargetDropped ==
    [][\A i \in Slots :
         (tasks'[i].kind = "sel" /\ tasks'[i].target # tasks'[i].bot)
         => LET t == tasks'[i]
                g == NumToString(t.chat)
            IN  /\ t.reply = NoReply
                /\ Acts(i) =>
                     /\ activationStates'[t.bot][g].inProgress
                           = activationStates[t.bot][g].inProgress
                     /\ pendingActivations' = pendingActivations
                     /\ activationMessages' = activationMessages]_vars

\* C23: when the expiry timer of a selection fires and a PendingAttempt is
\* outstanding for the chat, the in-progress flag becomes false, the PendingAttempt
\* is removed and the notice is sent to the group (unless the send fails); when no
\* PendingAttempt is outstanding, the timer changes nothing and sends nothing.
C23_ExpiryTimer ==
    [][\A tm \in timers :
         (tm.kind = "pending" /\ tm \notin timers')
         => LET g == NumToString(tm.chat) IN
            IF pendingActivations[tm.bot][tm.chat] # NoAttempt
            THEN /\ ~activationStates'[tm.bot][g].inProgress
                 /\ pendingActivations'[tm.bot][tm.chat] = NoAttempt
                 /\ \/ expiryNotices' = expiryNotices + 1
                    \/ expiryNotices' = expiryNotices /\ nFail' = nFail - 1
                 /\ UNCHANGED <<db, tasks>>
            ELSE UNCHANGED <<activationStates, pendingActivations, activationMessages,
                             db, tasks, expiryNotices, nFail, nextMsgId>>]_vars

\* One selection expired with its attempt outstanding (the notice was sent); a
\* second selection was redeemed and its timer has fired as well
C23_Witness ==
    /\ expiryNotices = 1
    /\ timers = {}
    /\ db[1].activation_status = "active"
    /\ pendingActivations[12][GroupChat] = NoAttempt

\* C24: on every conversational event for a (bot, group) that has an active row,
\* when the end of the row has passed the expiry check changes its status from
\* active to expired and the handler goes on to the expired notice without
\* processing the message; when the end has not passed the check leaves the table
\* unchanged and the message is processed.
C24_LazyExpiry ==
    [][\A i \in Slots :
         LET t == tasks[i]
             act == ActiveRows(NumToString(t.chat), NumToString(t.bot))
         IN  (At(i, "txt", "cv_expiry") /\ Acts(i) /\ act # {}) =>
               /\ (\A a \in act : IsPastEnd(now, db[a].activation_end))
                    => /\ tasks'[i].pc = "cv_marked"
                       /\ \A a \in act : db'[a].activation_status = "expired"
               /\ (\A a \in act : ~IsPastEnd(now, db[a].activation_end))
                    => /\ tasks'[i].pc = "cv_handle"
                       /\ db' = db]_vars

\* C25: once cleanup() has begun no bot instance is registered or started, and when
\* cleanup() is complete no instance is running or being launched, the registry is
\* empty and the subscription to the change stream is released, however the
\* INSERT notifications of the change stream interleave with it.
C25_OrderlyShutdown ==
    /\ [][manager.pc # "serving"
            => /\ bots' \subseteq bots
               /\ manager'.launching \subseteq manager.launching
               /\ manager'.running \subseteq manager.running]_vars
    /\ [](manager.pc = "done"
            => /\ bots = {}
               /\ manager.launching = {} /\ manager.running = {}
               /\ ~manager.channel)

\* C26: the step of an /activation handler that rejects the request as rate-limited
\* adds one to the attempt counter of the (bot, group) and changes nothing else: the
\* last-attempt timestamp and the in-progress flag, the pending attempts, the
\* message registries, the timers and the store are unchanged, and the reply is
\* the rate-limit notice with its wait; the rest of the handler changes nothing.
C26_RateLimitedFrame ==
    [][\A i \in Slots :
         LET t == tasks[i]
             g == NumToString(t.chat)
             old == activationStates[t.bot][g]
             new == activationStates'[t.bot][g]
         IN  /\ (At(i, "cmd", "cmd_state") /\ tasks'[i].reply = "rate_limited") =>
                  /\ old.has /\ new.attempts = old.attempts + 1
                  /\ new.attempts > MAX_ATTEMPTS
                  /\ new.lastAttempt = old.lastAttempt
                  /\ new.inProgress = old.inProgress
                  /\ \A b \in BotIds : \A h \in DOMAIN activationStates[b] :
                        <<b, h>> # <<t.bot, g>> => activationStates'[b][h] = activationStates[b][h]
                  /\ UNCHANGED <<pendingActivations, activationMessages, timers, db,
                                 nextMsgId, redemptions>>
             /\ (t.kind = "cmd" /\ t.reply = "rate_limited" /\ Acts(i)) =>
                  /\ tasks'[i] = Idle
                  /\ UNCHANGED <<activationStates, pendingActivations, activationMessages,
                                 timers, db, nextMsgId, redemptions>>]_vars

\* A request has just been rejected as rate-limited: the counter is over the maximum
\* and the last-attempt timestamp is still that of an earlier, admitted attempt
C26_Witness ==
    /\ \E i \in Slots : At(i, "cmd", "cmd_end") /\ tasks[i].reply = "rate_limited"
    /\ activationStates[12][NumToString(GroupChat)].attempts = MAX_ATTEMPTS + 1
    /\ activationStates[12][NumToString(GroupChat)].lastAttempt < now
    /\ ~activationStates[12][NumToString(GroupChat)].inProgress

\* C27: under fair scheduling of the handlers, the timers and the clock, whenever a
\* PendingAttempt is recorded for the group there is a later state in which no
\* PendingAttempt is recorded for it.
C27_AttemptDestroyed ==
    (pendingActivations[12][GroupChat] # NoAttempt)
        ~> (pendingActivations[12][GroupChat] = NoAttempt)

\* C28: the step of an /activation handler that follows getActivationState answers
\* "already activated" when the instance is active in the group, else "already in
\* progress" when the in-progress flag is set, and in both cases leaves the attempt
\* counter and the last-attempt timestamp as they were; only otherwise is the
\* attempt counted, and it is stamped before the role lookups start, so a request
\* rejected at a role check is one the limiter counted after the request was made.
C28_PreconditionOrder ==
    [][\A i \in Slots :
         LET t == tasks[i]
             g == NumToString(t.chat)
             st == StateAfterLookup(t.bot, g, t.found # NoRow)
             old == activationStates[t.bot][g]
             new == activationStates'[t.bot][g]
             kept == new.attempts = st.attempts /\ new.lastAttempt = st.lastAttempt
             inWindow == now - st.lastAttempt < WINDOW_MS
         IN  /\ (At(i, "cmd", "cmd_state") /\ Acts(i)) =>
                  /\ st.isActive =>
                        tasks'[i].reply = "already_activated" /\ kept
                  /\ (~st.isActive /\ st.inProgress) =>
                        tasks'[i].reply = "in_progress" /\ kept
                  /\ (~st.isActive /\ ~st.inProgress) =>
                        /\ new.attempts = IF inWindow THEN st.attempts + 1 ELSE 1
                        /\ \/ tasks'[i].reply = "rate_limited"
                           \/ tasks'[i].pc = "cmd_roles" /\ new.lastAttempt = now
             /\ (At(i, "cmd", "cmd_roles") /\ tasks'[i].reply \in {"need_admin", "promote_me"}) =>
                  /\ old.attempts >= 1
                  /\ old.lastAttempt >= t.date * SECOND_MS
                  /\ new = old]_vars

\* A request has just been answered "already in progress" with the counter at the
\* maximum, where the limiter would have counted and rejected it: the counter and
\* the timestamp of the last admitted attempt are as they were
C28_Witness ==
    /\ \E i \in Slots : At(i, "cmd", "cmd_end") /\ tasks[i].reply = "in_progress"
    /\ activationStates[12][NumToString(GroupChat)].attempts = MAX_ATTEMPTS
    /\ activationStates[12][NumToString(GroupChat)].inProgress
    /\ activationStates[12][NumToString(GroupChat)].lastAttempt < now

\* C29: while the pair is in progress with an attempt recorded for the chat, the
\* step of the text handler that follows getActivationState, for a message of a
\* user other than the one of the attempt, leaves the in-progress flag, the attempt
\* counter and timestamp, the pending attempts, the message registries and the
\* store as they were, sends nothing, and hands the message to the conversational
\* handler.
C29_OtherPrincipalIgnored ==
    [][\A i \in Slots :
         LET t == tasks[i]
             g == NumToString(t.chat)
             old == activationStates[t.bot][g]
             new == activationStates'[t.bot][g]
             pa == pendingActivations[t.bot][t.chat]
         IN  (/\ At(i, "txt", "txt_state") /\ Acts(i)
              /\ old.has /\ old.inProgress /\ pa # NoAttempt /\ t.from # pa.userId) =>
               /\ new.inProgress /\ new.attempts = old.attempts
               /\ new.lastAttempt = old.lastAttempt
               /\ UNCHANGED <<pendingActivations, activationMessages, timers, db,
                              redemptions, hookCalls, nextMsgId, nFail>>
               /\ tasks'[i] = Conversational(t)
               /\ tasks'[i].kind = "txt" => tasks'[i].reply = NoReply]_vars

\* While user 1's code is awaited, a mention of the bot by user 2 has been handed to
\* the conversational handler
C29_Witness ==
    /\ \E i \in Slots : At(i, "txt", "cv_active") /\ tasks[i].from = 2
    /\ activationStates[12][NumToString(GroupChat)].inProgress
    /\ pendingActivations[12][GroupChat] # NoAttempt
    /\ pendingActivations[12][GroupChat].userId = 1

\* C30: a code whose row has no selected bot identity, is unused and pending, and
\* is presented by its authorized principal passes the checks: the bot-match check
\* does not reject it.
C30_UnselectedRedeemed ==
    \A i \in Slots :
        (/\ tasks[i].kind = "txt" /\ tasks[i].pc \in AfterLookup
         /\ tasks[i].row.id # NoRow
         /\ tasks[i].row.selectedbotid = NullStr
         /\ tasks[i].row.verification_used_at = NullNum
         /\ tasks[i].row.activation_status = "pending"
         /\ ~PrincipalDiffers(tasks[i].from, tasks[i].row))
        => tasks[i].verdict = "ok"

\* C31: a row goes from active to expired only in the step of a conversational
\* handler that runs checkAndHandleExpiration for the bot and the group of that row;
\* no timer, clock advance or other handler does it, and an /activation request
\* that finds the row active is answered "already activated" whatever its end.
C31_ExpiryOnlyOnAccess ==
    [][/\ \A a \in ActIds :
            (db[a].activation_status = "active" /\ db'[a].activation_status = "expired") =>
              \E i \in Slots :
                /\ At(i, "txt", "cv_expiry") /\ Acts(i)
                /\ db[a].telegram_group_id = NumToString(tasks[i].chat)
                /\ db[a].selectedbotid = NumToString(tasks[i].bot)
       /\ \A i \in Slots :
            (At(i, "cmd", "cmd_state") /\ Acts(i) /\ tasks[i].found # NoRow) =>
              /\ tasks'[i].pc = "cmd_end"
              /\ tasks'[i].reply \in {"already_activated", NoReply}
              /\ db' = db]_vars

\* The clock is past the end of a row that is still active, no conversational
\* handler has run since, and an /activation request has been answered "already
\* activated"
C31_Witness ==
    /\ \E a \in ActIds : /\ db[a].activation_status = "active"
                         /\ IsPastEnd(now, db[a].activation_end)
    /\ \E i \in Slots : At(i, "cmd", "cmd_end") /\ tasks[i].reply = "already_activated"

\* C32: a callback whose data has the form select_bot:<activationId>:<botIdentity>
\* is handled with the second number as the target bot identity, never with the
\* activation id in its place.
C32_TwoNumberPayload ==
    \A i \in Slots :
        (tasks[i].kind = "sel" /\ Len(tasks[i].data) = 2)
        => tasks[i].target = tasks[i].data[2]

\* C33: when a code submission has been answered with the success message the
\* in-progress flag of the (bot, group) is false, and an /activation request is
\* answered "already in progress" only when a PendingAttempt is recorded for the
\* chat at that time.
C33_SuccessClearsInProgress ==
    /\ [](\A i \in Slots :
            (tasks[i].kind = "txt" /\ tasks[i].reply = "success")
            => ~activationStates[tasks[i].bot][NumToString(tasks[i].chat)].inProgress)
    /\ [][\A i \in Slots :
            (At(i, "cmd", "cmd_state") /\ tasks'[i].reply = "in_progress")
            => pendingActivations[tasks[i].bot][tasks[i].chat] # NoAttempt]_vars

\* C34: an expiry timer removes a PendingAttempt only when the fixed window has
\* elapsed since that attempt was created.
C34_TimerCancelsOwnAttempt ==
    [][\A tm \in timers :
         LET pa == pendingActivations[tm.bot][tm.chat] IN
         (/\ tm.kind = "pending" /\ tm \notin timers'
          /\ pa # NoAttempt /\ pendingActivations'[tm.bot][tm.chat] = NoAttempt)
         => now >= pa.timestamp + PENDING_TTL_MS]_vars

\* C35: once a principal has passed the administrator check for a (bot, group), a
\* PendingAttempt is created only for such a principal and only while no attempt is
\* awaiting a code: a selection by anyone else, or one arriving while an attempt is
\* pending, neither creates nor replaces the PendingAttempt.
C35_AttemptOfCheckedPrincipal ==
    [][\A b \in BotIds, c \in Chats :
         LET pa == pendingActivations[b][c]
             pa2 == pendingActivations'[b][c] IN
         (pa2 # pa /\ pa2 # NoAttempt /\ passedAdmin[b][c] # {})
         => (pa2.userId \in passedAdmin[b][c] /\ pa = NoAttempt)]_vars

\* C36: after an /activation request for a (bot, group) has been rejected as
\* rate-limited (the counter stands above MAX_ATTEMPTS), a request for that
\* (bot, group) passes the rate limiter only when COOLDOWN_MS has elapsed since the
\* last admitted attempt.
C36_CooldownEnforced ==
    [][\A i \in Slots :
         LET t == tasks[i]
             st == activationStates[t.bot][NumToString(t.chat)] IN
         (/\ At(i, "cmd", "cmd_state") /\ tasks'[i].pc = "cmd_roles"
          /\ st.attempts > MAX_ATTEMPTS)
         => now - st.lastAttempt >= COOLDOWN_MS]_vars

\* C37: whenever an /activation request passes the rate limiter, the attempt
\* counter of the (bot, group) is then between 1 and MAX_ATTEMPTS and the
\* last-attempt timestamp is the time of that request.
C37_AdmittedCounterInRange ==
    [][\A i \in Slots :
         (At(i, "cmd", "cmd_state") /\ tasks'[i].pc = "cmd_roles")
         => LET st2 == activationStates'[tasks[i].bot][NumToString(tasks[i].chat)] IN
            /\ st2.attempts >= 1
            /\ st2.attempts <= MAX_ATTEMPTS
            /\ st2.lastAttempt = now]_vars

\* C37 witness: a request has just passed the rate limiter as the last one the
\* window allows: the counter stands at MAX_ATTEMPTS and is stamped with the clock
C37_Witness ==
    \E i \in Slots :
        /\ tasks[i].kind = "cmd" /\ tasks[i].pc = "cmd_roles"
        /\ activationStates[tasks[i].bot][NumToString(tasks[i].chat)].attempts = MAX_ATTEMPTS
        /\ activationStates[tasks[i].bot][NumToString(tasks[i].chat)].lastAttempt = now

\* C38: when a code submission that passed the redemption checks is answered with
\* an error message (error during activation or during verification), the
\* Activation it named is as before the submission: status pending and the
\* used-timestamp unset.
C38_ErrorReplyLeavesRowPending ==
    \A i \in Slots :
        (/\ tasks[i].kind = "txt" /\ tasks[i].verdict = "ok"
         /\ tasks[i].reply \in {"activation_error", "verification_error"})
        => /\ db[tasks[i].row.id].activation_status = "pending"
           /\ db[tasks[i].row.id].verification_used_at = NullNum

\* C39: every running bot instance is the one the registry holds for its
\* identity: no instance that was replaced in the registry without being stopped
\* is running, so at most one instance runs per identity.
C39_OneInstancePerIdentity ==
    \A o \in manager.orphans : o.st # "running"

\* C40: a step of an operation performed for one bot identity in a group changes
\* neither the status of an Activation selected for another bot identity nor the
\* runtime state (in-progress flag) or PendingAttempt that another bot identity
\* keeps for the group.
C40_TenantIsolation ==
    [][\A i \in Slots :
         Acts(i) =>
         LET b == IF tasks[i].kind = "idle" THEN tasks'[i].bot ELSE tasks[i].bot IN
         \A b2 \in BotIds \ {b} :
            /\ \A a \in ActIds :
                 db[a].selectedbotid = NumToString(b2)
                 => db'[a].activation_status = db[a].activation_status
            /\ activationStates'[b2] = activationStates[b2]
            /\ pendingActivations'[b2] = pendingActivations[b2]]_vars

====
